---- MODULE Spec2Model ----
(***************************************************************************)
(* Auvia backend: the catalog synchronisation engine (scan / verify), the  *)
(* playback queue and the download orchestrator, as state machines over    *)
(* the rows of the database and the files of the storage root.             *)
(*                                                                         *)
(* The database is PostgreSQL (config.py:8, database.py:6): foreign keys   *)
(* and NOT NULL columns are enforced, a statement that violates one raises *)
(* and the request's transaction is rolled back when its session closes.   *)
(***************************************************************************)
EXTENDS Integers, Sequences, FiniteSets, TLC

VARIABLES
    fs,        \* the storage root: path -> embedded tags, or NoFile
    artists,   \* table artists:  id -> row
    albums,    \* table albums:   id -> row
    tracks,    \* table tracks:   id -> row
    queue,     \* table queue:    id -> row
    tasks,     \* table download_tasks: id -> row
    seq,       \* the serial primary-key sequences of the tables (retry: the
               \* number of the next retry request)
    execs,     \* background _execute_download coroutines: task id -> frame
    invoked,   \* observation: how often the download executor ran, per task
    req,       \* in-flight queue requests (their position between awaits)
    lock,      \* the request whose uncommitted UPDATE holds the row locks
    last,      \* observation: what the last handler returned
    history    \* table play_history, in insertion order: sequence of rows

vars == <<fs, artists, albums, tracks, queue, tasks, seq, execs, invoked,
          req, lock, last, history>>

-----------------------------------------------------------------------------
(* Bounds of the model *)

MaxRowId == 2      \* serial ids handed out per catalog table
MaxItemId == 4     \* serial ids handed out for queue items
MaxQueued == 1     \* queue rows while the catalog is scanned and verified
MaxTaskId == 2     \* serial ids handed out for download tasks
MaxRetries == 1    \* retry_download requests that reset a task

-----------------------------------------------------------------------------
(* Values *)

NoFile == [missing |-> TRUE]  \* os.path.exists(path) is False
NoPath == "nopath"          \* file_path IS NULL
NoId == "noid"              \* an absent (None) external id or url
NoNum == 0                  \* an absent (None) track number
UnknownArtist == "Unknown Artist"
UnknownAlbum == "Unknown Album"

Paths == {"p1", "p2"}

\* _extract_artist_album_from_path(root): what the folder of a path yields.
\* p1 lies in "Abba - Gold (1992)", p2 in "misc" (no " - ": artist None).
DirArtist(p) == IF p = "p1" THEN "Abba" ELSE ""
DirAlbum(p) == IF p = "p1" THEN "Gold" ELSE "misc"
\* _clean_filename_for_title(filename)
FileTitle(p) == IF p = "p1" THEN "Dancing Queen" ELSE "Loser"

\* The embedded tags a file may carry: none at all, or complete tags
\* ("ABBA" differs from the folder's "Abba" in case only).
Tags == {[artist |-> "", album |-> "", title |-> "", tracknumber |-> NoNum],
         [artist |-> "ABBA", album |-> "Gold", title |-> "Intro", tracknumber |-> 1]}

\* A title of more than 255 characters, and tags that carry it
LongTitle == "a title of 256 characters"
LongTags == [artist |-> "Beck", album |-> "Odelay", title |-> LongTitle,
             tracknumber |-> 2]

\* func.lower() on the names that occur
Lower(s) ==
    CASE s = "Abba" -> "abba"
      [] s = "ABBA" -> "abba"
      [] s = UnknownArtist -> "unknown artist"
      [] OTHER -> s

EmptyFn == [x \in {} |-> x]

Insert(f, k, v) == [x \in DOMAIN f \cup {k} |-> IF x = k THEN v ELSE f[x]]
Remove(f, ks) == [x \in DOMAIN f \ ks |-> f[x]]

-----------------------------------------------------------------------------
(* Catalog store: services/music.py.  A catalog value db is                *)
(* [artists, albums, tracks, seq], the three tables and their sequences.   *)

Catalog == [artists |-> artists, albums |-> albums, tracks |-> tracks,
            seq |-> seq]

\* get_or_create_artist(name) as the scanner calls it (qobuz_id=None).
\* Result: [db, id, raised]; raised is scalar_one_or_none()'s
\* MultipleResultsFound.
GetOrCreateArtist(db, name0) ==
    LET name == IF name0 = "" THEN UnknownArtist ELSE name0
        found == {a \in DOMAIN db.artists :
                     Lower(db.artists[a].name) = Lower(name)}
        new == db.seq.artist
    IN  IF Cardinality(found) > 1
        THEN [db |-> db, id |-> 0, raised |-> TRUE]
        ELSE IF found = {}
        THEN [db |-> [db EXCEPT
                        !.artists = Insert(@, new, [name |-> name, qobuz_id |-> NoId]),
                        !.seq.artist = @ + 1],
              id |-> new, raised |-> FALSE]
        ELSE [db |-> db, id |-> CHOOSE a \in found : TRUE, raised |-> FALSE]

\* get_or_create_album(title, artist, qobuz_id, qobuz_url)
GetOrCreateAlbum(db, title0, artist, qobuz_id, qobuz_url) ==
    LET title == IF title0 = "" THEN UnknownAlbum ELSE title0
        byId == {a \in DOMAIN db.albums : db.albums[a].qobuz_id = qobuz_id}
        byName == {a \in DOMAIN db.albums :
                      /\ db.albums[a].title = title
                      /\ db.albums[a].artist_id = artist}
        new == db.seq.album
    IN  IF qobuz_id # NoId /\ Cardinality(byId) > 1
        THEN [db |-> db, id |-> 0, raised |-> TRUE]
        ELSE IF qobuz_id # NoId /\ byId # {}
        THEN [db |-> db, id |-> CHOOSE a \in byId : TRUE, raised |-> FALSE]
        ELSE IF Cardinality(byName) > 1
        THEN [db |-> db, id |-> 0, raised |-> TRUE]
        ELSE IF byName = {}
        THEN [db |-> [db EXCEPT
                        !.albums = Insert(@, new,
                            [title |-> title, artist_id |-> artist,
                             qobuz_id |-> qobuz_id, qobuz_url |-> qobuz_url,
                             is_downloaded |-> FALSE]),
                        !.seq.album = @ + 1],
              id |-> new, raised |-> FALSE]
        ELSE [db |-> db, id |-> CHOOSE a \in byName : TRUE, raised |-> FALSE]

\* rule (b) of add_track: a track already has this exact file path
AddTrackByPath(db, t, title, artist, album, track_number) ==
    [db EXCEPT !.tracks[t] =
        [@ EXCEPT !.title = title,
                  !.track_number = track_number,
                  !.is_downloaded = TRUE,
                  !.artist_id = IF db.artists[artist].name # UnknownArtist
                                THEN artist ELSE @,
                  !.album_id = IF db.albums[album].artist_id = artist
                               THEN album ELSE @]]

\* A lookup that finds nothing: add_track without its file-path rule
TracksByPath_Skipped(db, file_path) == {}

\* music.py:195-198: select(Track).where(Track.file_path == file_path)
TracksByPath(db, file_path) ==
    {t \in DOMAIN db.tracks : db.tracks[t].file_path = file_path}

\* tracks.title is String(255) (models/music.py:48): the flush of a longer
\* title raises
TitleTooLong(title) == title = LongTitle

\* add_track(title, artist, album, file_path, qobuz_id, track_number).
\* Column == None compiles to IS NULL, so an absent track number matches the
\* tracks that have none.  Result: [db, raised].
AddTrack(db, title, artist, album, file_path, qobuz_id, track_number) ==
    LET byId == {t \in DOMAIN db.tracks : db.tracks[t].qobuz_id = qobuz_id}
        byPath == TracksByPath(db, file_path)
        byTriple == {t \in DOMAIN db.tracks :
                        /\ db.tracks[t].album_id = album
                        /\ db.tracks[t].track_number = track_number
                        /\ db.tracks[t].title = title}
        new == db.seq.track
        relink(t) == [db EXCEPT !.tracks[t].file_path = file_path,
                                !.tracks[t].is_downloaded = TRUE]
    IN  IF qobuz_id # NoId /\ Cardinality(byId) > 1
        THEN [db |-> db, raised |-> TRUE]
        ELSE IF qobuz_id # NoId /\ byId # {}
        THEN [db |-> relink(CHOOSE t \in byId : TRUE), raised |-> FALSE]
        ELSE IF Cardinality(byPath) > 1
        THEN [db |-> db, raised |-> TRUE]
        ELSE IF byPath # {} /\ TitleTooLong(title)
        THEN [db |-> db, raised |-> TRUE]
        ELSE IF byPath # {}
        THEN [db |-> AddTrackByPath(db, CHOOSE t \in byPath : TRUE, title,
                                    artist, album, track_number),
              raised |-> FALSE]
        ELSE IF Cardinality(byTriple) > 1
        THEN [db |-> db, raised |-> TRUE]
        ELSE IF byTriple # {}
        THEN [db |-> relink(CHOOSE t \in byTriple : TRUE), raised |-> FALSE]
        ELSE IF TitleTooLong(title)
        THEN [db |-> db, raised |-> TRUE]
        ELSE [db |-> [db EXCEPT
                        !.tracks = Insert(@, new,
                            [title |-> title, artist_id |-> artist,
                             album_id |-> album, qobuz_id |-> qobuz_id,
                             track_number |-> track_number,
                             file_path |-> file_path, is_downloaded |-> TRUE,
                             play_count |-> 0]),
                        !.seq.track = @ + 1],
              raised |-> FALSE]

-----------------------------------------------------------------------------
(* Scanner: MusicService.scan_directory *)

ZeroStats == [albums |-> 0, tracks |-> 0, errors |-> 0]

\* The artist / album / title a file resolves to (music.py:301-315): the
\* tag, else what the folder or the file name yields, else the sentinel.
ArtistNameOf(F, p) ==
    IF F[p].artist = "" \/ F[p].artist = UnknownArtist
    THEN (IF DirArtist(p) # "" THEN DirArtist(p) ELSE UnknownArtist)
    ELSE F[p].artist
AlbumTitleOf(F, p) ==
    IF F[p].album = ""
    THEN (IF DirAlbum(p) # "" THEN DirAlbum(p) ELSE UnknownAlbum)
    ELSE F[p].album
TrackTitleOf(F, p) == IF F[p].title = "" THEN FileTitle(p) ELSE F[p].title

\* The album row changes the scanner makes in memory before add_track
\* (music.py:329-338); add_track's commit persists them.
MarkAlbum(db, a, qid, qurl) ==
    [db EXCEPT !.albums[a] =
        [@ EXCEPT !.qobuz_id = IF qid # NoId /\ @ = NoId THEN qid ELSE @,
                  !.qobuz_url = IF qurl # NoId /\ @ = NoId THEN qurl ELSE @,
                  !.is_downloaded = TRUE]]

\* One iteration of the per-file loop body (music.py:288-368) on scan state
\* st = [db, stats].  When a call raises, the except branch counts an error
\* and rolls the session back to its last commit: rows that
\* get_or_create_artist / get_or_create_album created are already committed,
\* the album changes of MarkAlbum are not.
ScanFile(F, st, p, qid, qurl) ==
    LET ra == GetOrCreateArtist(st.db, ArtistNameOf(F, p))
        rb == GetOrCreateAlbum(ra.db, AlbumTitleOf(F, p), ra.id, qid, qurl)
        fresh == ~rb.db.albums[rb.id].is_downloaded
        stats1 == IF fresh THEN [st.stats EXCEPT !.albums = @ + 1] ELSE st.stats
        rc == AddTrack(MarkAlbum(rb.db, rb.id, qid, qurl), TrackTitleOf(F, p),
                       ra.id, rb.id, p, NoId, F[p].tracknumber)
    IN  IF ra.raised
        THEN [db |-> st.db, stats |-> [st.stats EXCEPT !.errors = @ + 1]]
        ELSE IF rb.raised
        THEN [db |-> ra.db, stats |-> [st.stats EXCEPT !.errors = @ + 1]]
        ELSE IF rc.raised
        THEN [db |-> rb.db, stats |-> [stats1 EXCEPT !.errors = @ + 1]]
        ELSE [db |-> rc.db, stats |-> [stats1 EXCEPT !.tracks = @ + 1]]

RECURSIVE ScanFiles(_, _, _, _, _)
ScanFiles(F, st, order, qid, qurl) ==
    IF order = <<>> THEN st
    ELSE ScanFiles(F, ScanFile(F, st, Head(order), qid, qurl), Tail(order),
                   qid, qurl)

\* scan_directory(directory, qobuz_album_id, qobuz_url): the files of the
\* root in the order os.walk yields them.  Result: [db, stats].
ScanDirectory(F, db, order, qid, qurl) ==
    ScanFiles(F, [db |-> db, stats |-> ZeroStats], order, qid, qurl)

Present(F) == {p \in Paths : F[p] # NoFile}

\* The orders in which os.walk / listdir may yield a set of files.
WalkOrders(S) ==
    {o \in [1 .. Cardinality(S) -> S] :
        \A i, j \in 1 .. Cardinality(S) : i # j => o[i] # o[j]}

-----------------------------------------------------------------------------
(* Verifier: MusicService.verify_local_files, check_track_availability *)

Downloaded(db) == {t \in DOMAIN db.tracks : db.tracks[t].is_downloaded}

\* music.py:556: the downloaded tracks whose file is gone
MissingTracks(db, F) ==
    {t \in Downloaded(db) :
        /\ db.tracks[t].file_path # NoPath
        /\ F[db.tracks[t].file_path] = NoFile}

\* A verification that forgets the path of a missing track and keeps its flag
ClearMissing_PathOnly(trk, missing) ==
    [t \in DOMAIN trk |->
        IF t \in missing THEN [trk[t] EXCEPT !.file_path = NoPath] ELSE trk[t]]

\* music.py:555-564: clear the flag and the path of every missing track
ClearMissing(trk, missing) ==
    [t \in DOMAIN trk |->
        IF t \in missing
        THEN [trk[t] EXCEPT !.is_downloaded = FALSE, !.file_path = NoPath]
        ELSE trk[t]]

\* music.py:568-576: of the albums of the missing tracks, those none of
\* whose tracks is downloaded any more (cleared: the tracks after 555-564)
DeadAlbums(db, cleared, missing) ==
    LET albums_to_check == {cleared[t].album_id : t \in missing}
    IN  {a \in albums_to_check \cap DOMAIN db.albums :
            \A t \in DOMAIN cleared :
                cleared[t].album_id = a => ~cleared[t].is_downloaded}

\* music.py:579-580: album.tracks of the albums that are deleted
DeadTracks(trk, dead_albums) ==
    {t \in DOMAIN trk : trk[t].album_id \in dead_albums}

\* music.py:587-592: the artists no remaining album refers to
OrphanArtists(db, dead_albums) ==
    {a \in DOMAIN db.artists :
        \A al \in DOMAIN db.albums \ dead_albums : db.albums[al].artist_id # a}

\* variant: a delete of a track that a queue row references goes through
DeleteRaises_QueueUnchecked(trk, q, h, dead_tracks, orphans) ==
    \/ \E i \in DOMAIN h : h[i].track_id \in dead_tracks
    \/ \E t \in DOMAIN trk \ dead_tracks : trk[t].artist_id \in orphans

\* variant: a delete of an artist that tracks reference goes through
DeleteRaises_ArtistUnchecked(trk, q, h, dead_tracks, orphans) ==
    \/ \E i \in DOMAIN q : q[i].track_id \in dead_tracks
    \/ \E i \in DOMAIN h : h[i].track_id \in dead_tracks

\* The flush of the deletes fails when a deleted track is still referenced
\* by a queue row (queue.track_id REFERENCES tracks.id, models/music.py:80)
\* or by a play_history row (models/music.py:69), or when a deleted artist
\* still has tracks (the unit of work nulls tracks.artist_id, which is NOT
\* NULL, models/music.py:49).
DeleteRaises(trk, q, h, dead_tracks, orphans) ==
    \/ \E i \in DOMAIN q : q[i].track_id \in dead_tracks
    \/ \E i \in DOMAIN h : h[i].track_id \in dead_tracks
    \/ \E t \in DOMAIN trk \ dead_tracks : trk[t].artist_id \in orphans

\* verify_local_files(): [db, stats, raised].  Nothing is committed before
\* line 597, so a run that raises leaves the database as it was and
\* returns no stats.
VerifyLocalFiles(db, F, q, h) ==
    LET missing == MissingTracks(db, F)
        cleared == ClearMissing(db.tracks, missing)
        dead_albums == DeadAlbums(db, cleared, missing)
        dead_tracks == DeadTracks(cleared, dead_albums)
        orphans == OrphanArtists(db, dead_albums)
        stats == [verified |-> Cardinality(Downloaded(db) \ missing),
                  missing_tracks |-> Cardinality(missing),
                  missing_albums |-> Cardinality(dead_albums)]
    IN  IF DeleteRaises(cleared, q, h, dead_tracks, orphans)
        THEN [db |-> db, stats |-> [verified |-> 0, missing_tracks |-> 0,
                                 missing_albums |-> 0], raised |-> TRUE]
        ELSE [db |-> [db EXCEPT
                        !.tracks = Remove(cleared, dead_tracks),
                        !.albums = Remove(@, dead_albums),
                        !.artists = Remove(@, orphans)],
              stats |-> stats, raised |-> FALSE]

\* check_track_availability(track_id): the new tracks table
CheckTrackAvailability(db, F, t) ==
    IF t \notin DOMAIN db.tracks THEN db.tracks
    ELSE IF ~db.tracks[t].is_downloaded THEN db.tracks
    ELSE IF db.tracks[t].file_path # NoPath /\ F[db.tracks[t].file_path] # NoFile
    THEN db.tracks
    ELSE [db.tracks EXCEPT ![t].is_downloaded = FALSE, ![t].file_path = NoPath]

-----------------------------------------------------------------------------
(* Queue engine: routers/queue.py.  A queue value q is the table queue,    *)
(* item id -> [track_id, position, is_playing].                            *)

Max(S) == CHOOSE x \in S : \A y \in S : y <= x

\* select(func.max(QueueItem.position)) ... scalar() or 0
MaxPos(q) == IF DOMAIN q = {} THEN 0 ELSE Max({q[i].position : i \in DOMAIN q})

PlayingItems(q) == {i \in DOMAIN q : q[i].is_playing}

\* UPDATE queue SET position = position + d WHERE lo <= position <= hi
ShiftPositions(q, lo, hi, d) ==
    [i \in DOMAIN q |->
        IF lo <= q[i].position /\ q[i].position <= hi
        THEN [q[i] EXCEPT !.position = @ + d] ELSE q[i]]

\* An UPDATE whose clause "id != NULL" matches no row
ClearPlaying_None(q) == q

\* UPDATE queue SET is_playing = false WHERE id != <new item>.id.  The new
\* item is not flushed yet: its id is None, the clause is "id IS NOT NULL".
ClearPlaying(q) == [i \in DOMAIN q |-> [q[i] EXCEPT !.is_playing = FALSE]]

\* queue.py:110-128: the position add_to_queue gives the new item, from what
\* its SELECTs returned: max_pos, and cur = [found, position], the playing
\* item as loaded
AddPosition(max_pos, cur, play_next) ==
    IF play_next THEN (IF cur.found THEN cur.position + 1 ELSE 1)
    ELSE max_pos + 1

\* An add_to_queue whose first UPDATE is "position >= current.position"
AddUpdates_ShiftCurrent(q, cur, play_now, play_next) ==
    LET shifted == IF play_next /\ cur.found
                   THEN ShiftPositions(q, cur.position, MaxPos(q), 1)
                   ELSE q
    IN  IF play_now THEN ClearPlaying(shifted) ELSE shifted

\* queue.py:117-123 and 138-144: the UPDATE statements of add_to_queue
AddUpdates(q, cur, play_now, play_next) ==
    LET shifted == IF play_next /\ cur.found
                   THEN ShiftPositions(q, cur.position + 1, MaxPos(q), 1)
                   ELSE q
    IN  IF play_now THEN ClearPlaying(shifted) ELSE shifted

\* queue.py:131-136, 146: the INSERT that commit flushes
AddFlush(q, id, track, position, play_now) ==
    Insert(q, id, [track_id |-> track, position |-> position,
                   is_playing |-> play_now])

\* queue.py:112-115: the playing item (scalar_one_or_none; the caller
\* handles MultipleResultsFound)
CurrentItem(q) ==
    IF PlayingItems(q) = {} THEN [found |-> FALSE, position |-> 0]
    ELSE [found |-> TRUE,
          position |-> q[CHOOSE i \in PlayingItems(q) : TRUE].position]

\* add_to_queue for a track of the catalog, run without interleaving
AddToQueueResult(q, id, track, play_now, play_next) ==
    AddFlush(AddUpdates(q, CurrentItem(q), play_now, play_next), id, track,
             AddPosition(MaxPos(q), CurrentItem(q), play_next), play_now)

\* remove_from_queue: the UPDATE (queue.py:234-238), then the DELETE
RemoveUpdate(q, removed_position) ==
    ShiftPositions(q, removed_position + 1, MaxPos(q), 0 - 1)
RemoveFlush(q, item) == Remove(q, {item})
RemoveResult(q, item) == RemoveFlush(RemoveUpdate(q, q[item].position), item)

\* A reorder_queue whose upward UPDATE is "position > new_position"
ReorderUpdate_Exclusive(q, old_position, new_position) ==
    IF old_position < new_position
    THEN ShiftPositions(q, old_position + 1, new_position, 0 - 1)
    ELSE ShiftPositions(q, new_position + 1, old_position - 1, 1)

\* reorder_queue: the UPDATE (queue.py:261-280), then item.position
ReorderUpdate(q, old_position, new_position) ==
    IF old_position < new_position
    THEN ShiftPositions(q, old_position + 1, new_position, 0 - 1)
    ELSE ShiftPositions(q, new_position, old_position - 1, 1)
\* The unit of work emits "UPDATE queue SET position = new WHERE id = item"
\* only when the attribute differs from the loaded value.
ReorderFlush(q, item, old_position, new_position) ==
    IF new_position = old_position THEN q
    ELSE [q EXCEPT ![item].position = new_position]
ReorderResult(q, item, new_position) ==
    ReorderFlush(ReorderUpdate(q, q[item].position, new_position), item,
                 q[item].position, new_position)

-----------------------------------------------------------------------------
(* Handlers as actions.  Every handler records what it returned in last.   *)

SetCatalog(db) ==
    /\ artists' = db.artists
    /\ albums' = db.albums
    /\ tracks' = db.tracks
    /\ seq' = db.seq

RowCounts(db) == [artists |-> Cardinality(DOMAIN db.artists),
                  albums |-> Cardinality(DOMAIN db.albums),
                  tracks |-> Cardinality(DOMAIN db.tracks)]

\* last = [op, again, raised, stats, changed, retag]: the handler that ran
\* last ("scan", "verify", or "other"), whether the one before it was the
\* same, whether it raised, the stats it returned, whether it changed the
\* catalog (scan: the number of rows of a table; verify: any row), and
\* (scan) whether it met a file whose track row, found by path, carried
\* another title.
ObserveFull(op, raised, stats, changed, retag) ==
    last' = [op |-> op, again |-> (op # "other" /\ last.op = op),
             raised |-> raised, stats |-> stats, changed |-> changed,
             retag |-> retag]

Observe(op, raised, stats) == ObserveFull(op, raised, stats, FALSE, FALSE)

\* The environment writes a file or rewrites its tags
WriteFile(p, tags) ==
    /\ fs[p] # tags
    /\ fs' = [fs EXCEPT ![p] = tags]
    /\ Observe("other", FALSE, ZeroStats)
    /\ UNCHANGED <<artists, albums, tracks, queue, tasks, seq, execs, invoked,
                   req, lock, history>>

\* The environment deletes a file
DeleteFile(p) ==
    /\ fs[p] # NoFile
    /\ fs' = [fs EXCEPT ![p] = NoFile]
    /\ Observe("other", FALSE, ZeroStats)
    /\ UNCHANGED <<artists, albums, tracks, queue, tasks, seq, execs, invoked,
                   req, lock, history>>

\* POST /music/scan (and the scan of GET /music/albums/by-qobuz): a scan of
\* the storage root without external id
ScanLibrary ==
    \E order \in WalkOrders(Present(fs)) :
        LET r == ScanDirectory(fs, Catalog, order, NoId, NoId)
            retagged == \E p \in Present(fs) : \E t \in DOMAIN tracks :
                            /\ tracks[t].file_path = p
                            /\ tracks[t].title # TrackTitleOf(fs, p)
        IN  /\ r.db.seq.artist <= MaxRowId + 1
            /\ r.db.seq.album <= MaxRowId + 1
            /\ r.db.seq.track <= MaxRowId + 1
            /\ SetCatalog(r.db)
            /\ ObserveFull("scan", FALSE, r.stats,
                           RowCounts(r.db) # RowCounts(Catalog), retagged)
            /\ UNCHANGED <<fs, queue, tasks, execs, invoked, req, lock, history>>

\* POST /music/verify, and the verification at startup (main.py:52-55)
Verify ==
    LET r == VerifyLocalFiles(Catalog, fs, queue, history)
    IN  /\ SetCatalog(r.db)
        /\ ObserveFull("verify", r.raised, r.stats, r.db # Catalog, FALSE)
        /\ UNCHANGED <<fs, queue, tasks, execs, invoked, req, lock, history>>

\* GET /music/track/{track_id}/check
CheckTrack(t) ==
    /\ t \in DOMAIN tracks
    /\ tracks' = CheckTrackAvailability(Catalog, fs, t)
    /\ Observe("other", FALSE, ZeroStats)
    /\ UNCHANGED <<fs, artists, albums, queue, tasks, seq, execs, invoked,
                   req, lock, history>>

\* POST /queue/add with a track id of the catalog.  More than one playing
\* row makes scalar_one_or_none() raise: the request fails and changes
\* nothing.
AddToQueue(t, play_now, play_next) ==
    /\ t \in DOMAIN tracks
    /\ seq.item <= MaxItemId
    /\ IF play_next /\ Cardinality(PlayingItems(queue)) > 1
       THEN /\ Observe("other", TRUE, ZeroStats)
            /\ UNCHANGED <<queue, seq>>
       ELSE /\ queue' = AddToQueueResult(queue, seq.item, t, play_now, play_next)
            /\ seq' = [seq EXCEPT !.item = @ + 1]
            /\ Observe("other", FALSE, ZeroStats)
    /\ UNCHANGED <<fs, artists, albums, tracks, tasks, execs, invoked, req, lock,
                    history>>

\* DELETE /queue/{item_id}
RemoveFromQueue(item) ==
    /\ item \in DOMAIN queue
    /\ queue' = RemoveResult(queue, item)
    /\ Observe("other", FALSE, ZeroStats)
    /\ UNCHANGED <<fs, artists, albums, tracks, tasks, seq, execs, invoked,
                   req, lock, history>>

\* POST /queue/reorder, new_position within the queue
ReorderQueue(item, new_position) ==
    /\ item \in DOMAIN queue
    /\ new_position \in 1 .. Cardinality(DOMAIN queue)
    /\ queue' = ReorderResult(queue, item, new_position)
    /\ Observe("other", FALSE, ZeroStats)
    /\ UNCHANGED <<fs, artists, albums, tracks, tasks, seq, execs, invoked,
                   req, lock, history>>

-----------------------------------------------------------------------------
(* Specifications *)

InitSeq == [artist |-> 1, album |-> 1, track |-> 1, item |-> 1, task |-> 1,
            retry |-> 1]
InitLast == [op |-> "other", again |-> FALSE, raised |-> FALSE,
             stats |-> ZeroStats, changed |-> FALSE, retag |-> FALSE]

\* An empty database and an empty storage root
Init ==
    /\ fs = [p \in Paths |-> NoFile]
    /\ artists = EmptyFn
    /\ albums = EmptyFn
    /\ tracks = EmptyFn
    /\ queue = EmptyFn
    /\ tasks = EmptyFn
    /\ seq = InitSeq
    /\ execs = EmptyFn
    /\ invoked = EmptyFn
    /\ req = EmptyFn
    /\ lock = 0
    /\ last = InitLast
    /\ history = <<>>

\* The catalog under scans, verifications and availability checks, with
\* the files changing underneath
NextScan ==
    \/ \E p \in Paths, tags \in Tags : WriteFile(p, tags)
    \/ \E p \in Paths : DeleteFile(p)
    \/ ScanLibrary
    \/ Verify
    \/ \E t \in DOMAIN tracks : CheckTrack(t)

SpecScan == Init /\ [][NextScan]_vars

\* The same, with tracks of the catalog being queued
NextCatalog ==
    \/ NextScan
    \/ \E t \in DOMAIN tracks :
          Cardinality(DOMAIN queue) < MaxQueued /\ AddToQueue(t, FALSE, FALSE)

SpecCatalog == Init /\ [][NextCatalog]_vars

-----------------------------------------------------------------------------
(* Scanner and verifier properties *)

\* C3: a second scan right after a scan (nothing happened in between, so
\* the tree is unchanged) reports tracks = 0 and albums = 0 and leaves the
\* number of artist, album and track rows as it was.
C3_SecondScanReportsNothingAdded ==
    (last.op = "scan" /\ last.again) =>
        /\ last.stats.tracks = 0
        /\ last.stats.albums = 0
        /\ ~last.changed

TracksAt(p) == {t \in DOMAIN tracks : tracks[t].file_path = p}

\* C4: whatever files were written, retagged, deleted, scanned and verified,
\* no two track rows carry the same file path.
C4_OneTrackPerPath == \A p \in Paths : Cardinality(TracksAt(p)) <= 1

\* A scan has just met a file whose tags changed since its track row was
\* written, and that path still has exactly one row, with the new title.
C4_RetaggedFileRescanned ==
    /\ last.op = "scan"
    /\ last.retag
    /\ \E p \in Present(fs) :
          /\ Cardinality(TracksAt(p)) = 1
          /\ \A t \in TracksAt(p) : tracks[t].title = TrackTitleOf(fs, p)
    /\ Cardinality(DOMAIN tracks) = 1

\* C5: a verification right after a verification reports missing_tracks = 0
\* and missing_albums = 0 and changes no row.
C5_SecondVerifyReportsZero ==
    (last.op = "verify" /\ last.again) =>
        /\ ~last.raised
        /\ last.stats.missing_tracks = 0
        /\ last.stats.missing_albums = 0
        /\ ~last.changed

\* The albums all of whose tracks are, after the pass, not downloaded
EmptiedAlbums ==
    {a \in DOMAIN albums :
        /\ \E t \in DOMAIN tracks :
              /\ tracks[t].album_id = a /\ tracks[t].is_downloaded
              /\ tracks[t].file_path # NoPath /\ fs[tracks[t].file_path] = NoFile
        /\ \A t \in DOMAIN tracks :
              (tracks[t].album_id = a /\ tracks[t].is_downloaded) =>
                  (tracks[t].file_path # NoPath /\ fs[tracks[t].file_path] = NoFile)}

\* C6: a verification clears path and flag of every downloaded track whose
\* file is missing; an album left without a downloaded track is deleted
\* with all its tracks and counted once in missing_albums.
C6_VerifyClearsAndDeletes ==
    [][Verify =>
        /\ \A t \in DOMAIN tracks :
              (/\ tracks[t].is_downloaded
               /\ tracks[t].file_path # NoPath
               /\ fs[tracks[t].file_path] = NoFile
               /\ t \in DOMAIN tracks') =>
                  (tracks'[t].file_path = NoPath /\ ~tracks'[t].is_downloaded)
        /\ \A a \in EmptiedAlbums :
              /\ a \notin DOMAIN albums'
              /\ \A t \in DOMAIN tracks : tracks[t].album_id = a => t \notin DOMAIN tracks'
        /\ last'.stats.missing_albums = Cardinality(EmptiedAlbums)]_vars

\* C7: when a verification has completed, every album flagged downloaded
\* owns a downloaded track with a file path.
C7_DownloadedAlbumOwnsDownloadedTrack ==
    (last.op = "verify" /\ ~last.raised) =>
        \A a \in DOMAIN albums :
            albums[a].is_downloaded =>
                \E t \in DOMAIN tracks :
                    /\ tracks[t].album_id = a
                    /\ tracks[t].is_downloaded
                    /\ tracks[t].file_path # NoPath

-----------------------------------------------------------------------------
(* The queue under add, remove and reorder requests that run one after the *)
(* other, over a scanned library of two untagged files                     *)

Library == [p \in Paths |->
               [artist |-> "", album |-> "", title |-> "", tracknumber |-> NoNum]]

ScannedLibrary ==
    ScanDirectory(Library,
                  [artists |-> EmptyFn, albums |-> EmptyFn, tracks |-> EmptyFn,
                   seq |-> InitSeq],
                  <<"p1", "p2">>, NoId, NoId).db

InitQueue ==
    /\ fs = Library
    /\ artists = ScannedLibrary.artists
    /\ albums = ScannedLibrary.albums
    /\ tracks = ScannedLibrary.tracks
    /\ seq = ScannedLibrary.seq
    /\ queue = EmptyFn
    /\ tasks = EmptyFn
    /\ execs = EmptyFn
    /\ invoked = EmptyFn
    /\ req = EmptyFn
    /\ lock = 0
    /\ last = InitLast
    /\ history = <<>>

NextQueue ==
    \/ \E t \in DOMAIN tracks, play_now, play_next \in BOOLEAN :
          AddToQueue(t, play_now, play_next)
    \/ \E item \in DOMAIN queue : RemoveFromQueue(item)
    \/ \E item \in DOMAIN queue, new_position \in 1 .. MaxItemId :
          ReorderQueue(item, new_position)

SpecQueue == InitQueue /\ [][NextQueue]_vars

Positions(q) == {q[i].position : i \in DOMAIN q}

\* The positions of the rows are exactly 1..N, each taken once
Contiguous(q) ==
    /\ Positions(q) = 1 .. Cardinality(DOMAIN q)
    /\ \A i, j \in DOMAIN q : q[i].position = q[j].position => i = j

\* C1: after any sequence of add (default, playNext, playNow), remove and
\* reorder requests from the empty queue, the positions are exactly 1..N
\* and at most one item is playing.
C1_QueuePositionsAndPlaying ==
    /\ Contiguous(queue)
    /\ Cardinality(PlayingItems(queue)) <= 1

-----------------------------------------------------------------------------
(* Two queue requests whose awaits interleave.  Each request runs in its   *)
(* own session and transaction (database.py get_db): its SELECTs see the   *)
(* committed table, its UPDATE locks the rows it changes until it commits. *)
(* Modelled are the schedules in which an UPDATE finds no row locked by    *)
(* another open transaction; in the others a statement waits.              *)

Requests == {1, 2}

NotFound == [found |-> FALSE, position |-> 0]

\* A request frame (req[r]): where the handler stands (pc), its arguments
\* and what its SELECTs returned; overlap: it started while the other was
\* under way

Overlaps(r) == \E o \in Requests \ {r} : req[o].pc \in {"read", "locked"}

\* queue.py:74-77, 104-115: add_to_queue(play_next=True) up to its UPDATE
BeginAdd(r, t) ==
    /\ req[r].pc = "idle"
    /\ t \in DOMAIN tracks
    /\ req' = [req EXCEPT ![r] =
          [@ EXCEPT !.pc = IF Cardinality(PlayingItems(queue)) > 1
                           THEN "done" ELSE "read",
                    !.op = "add", !.track = t,
                    !.max_pos = MaxPos(queue),
                    !.cur = IF Cardinality(PlayingItems(queue)) > 1
                            THEN NotFound ELSE CurrentItem(queue),
                    !.overlap = Overlaps(r)]]
    /\ UNCHANGED <<fs, artists, albums, tracks, queue, tasks, seq, execs,
                   invoked, lock, last, history>>

\* queue.py:222-231: remove_from_queue up to its UPDATE (404: done)
BeginRemove(r, item) ==
    /\ req[r].pc = "idle"
    /\ req' = [req EXCEPT ![r] =
          IF item \in DOMAIN queue
          THEN [@ EXCEPT !.pc = "read", !.op = "remove", !.item = item,
                         !.old_position = queue[item].position,
                         !.overlap = Overlaps(r)]
          ELSE [@ EXCEPT !.pc = "done", !.op = "remove", !.item = item]]
    /\ UNCHANGED <<fs, artists, albums, tracks, queue, tasks, seq, execs,
                   invoked, lock, last, history>>

\* queue.py:251-259: reorder_queue up to its UPDATE (404: done)
BeginReorder(r, item, new_position) ==
    /\ req[r].pc = "idle"
    /\ new_position \in 1 .. Cardinality(DOMAIN queue)
    /\ req' = [req EXCEPT ![r] =
          IF item \in DOMAIN queue
          THEN [@ EXCEPT !.pc = "read", !.op = "reorder", !.item = item,
                         !.new_position = new_position,
                         !.old_position = queue[item].position,
                         !.overlap = Overlaps(r)]
          ELSE [@ EXCEPT !.pc = "done", !.op = "reorder", !.item = item]]
    /\ UNCHANGED <<fs, artists, albums, tracks, queue, tasks, seq, execs,
                   invoked, lock, last, history>>

\* The request's UPDATE statement (queue.py:119-123, 234-238, 261-280):
\* it takes the row locks.  No other transaction commits before this one
\* does, so what the statement changes is computed when it commits.
ExecuteUpdate(r) ==
    /\ req[r].pc = "read"
    /\ lock = 0
    /\ lock' = r
    /\ req' = [req EXCEPT ![r].pc = "locked"]
    /\ UNCHANGED <<fs, artists, albums, tracks, queue, tasks, seq, execs,
                   invoked, last, history>>

\* What the committed table is after the request's UPDATE and the flush of
\* its unit of work.  reorder: the row UPDATE of a row that is gone matches
\* nothing, StaleDataError, the transaction is rolled back.  remove: the
\* DELETE of a row that is gone only warns.
Committed(q, f, id) ==
    CASE f.op = "add" ->
            AddFlush(AddUpdates(q, f.cur, FALSE, TRUE), id, f.track,
                     AddPosition(f.max_pos, f.cur, TRUE), FALSE)
      [] f.op = "remove" ->
            RemoveFlush(RemoveUpdate(q, f.old_position), f.item)
      [] OTHER ->
            IF f.item \notin DOMAIN q /\ f.new_position # f.old_position
            THEN q
            ELSE IF f.item \notin DOMAIN q
            THEN ReorderUpdate(q, f.old_position, f.new_position)
            ELSE ReorderFlush(ReorderUpdate(q, f.old_position, f.new_position),
                              f.item, f.old_position, f.new_position)

\* await db.commit() (queue.py:146, 240, 283)
Commit(r) ==
    /\ req[r].pc = "locked"
    /\ lock = r
    /\ queue' = Committed(queue, req[r], seq.item)
    /\ seq' = IF req[r].op = "add" THEN [seq EXCEPT !.item = @ + 1] ELSE seq
    /\ lock' = 0
    /\ req' = [req EXCEPT ![r].pc = "done"]
    /\ UNCHANGED <<fs, artists, albums, tracks, tasks, execs, invoked, last, history>>

\* Three items queued, the first one playing: add(1, playNow), add(2), add(1)
RaceQueue ==
    AddToQueueResult(
        AddToQueueResult(
            AddToQueueResult(EmptyFn, 1, 1, TRUE, FALSE), 2, 2, FALSE, FALSE),
        3, 1, FALSE, FALSE)

InitQueueRace ==
    /\ fs = Library
    /\ artists = ScannedLibrary.artists
    /\ albums = ScannedLibrary.albums
    /\ tracks = ScannedLibrary.tracks
    /\ seq = [ScannedLibrary.seq EXCEPT !.item = 4]
    /\ queue = RaceQueue
    /\ tasks = EmptyFn
    /\ execs = EmptyFn
    /\ invoked = EmptyFn
    /\ req = [r \in Requests |->
                 [pc |-> "idle", op |-> "none", item |-> 0, track |-> 0,
                  new_position |-> 0, old_position |-> 0, max_pos |-> 0,
                  cur |-> NotFound, overlap |-> FALSE]]
    /\ lock = 0
    /\ last = InitLast
    /\ history = <<>>

NextQueueRace ==
    \/ \E r \in Requests, t \in DOMAIN tracks : BeginAdd(r, t)
    \/ \E r \in Requests, item \in 1 .. MaxItemId : BeginRemove(r, item)
    \/ \E r \in Requests, item \in 1 .. MaxItemId, new_position \in 1 .. MaxItemId :
          BeginReorder(r, item, new_position)
    \/ \E r \in Requests : ExecuteUpdate(r)
    \/ \E r \in Requests : Commit(r)

SpecQueueRace == InitQueueRace /\ [][NextQueueRace]_vars

\* C10: when two requests (reorder, add with playNext, remove) have run
\* with their awaits interleaved and both have returned, the positions of
\* the committed queue are exactly 1..N.
C10_RacedQueueContiguous ==
    (/\ \A r \in Requests : req[r].pc = "done"
     /\ \E r \in Requests : req[r].overlap) => Contiguous(queue)

-----------------------------------------------------------------------------
(* Download orchestrator: services/download.py.  A task row is             *)
(* [qobuz_url, status, error_message]; a source URL is the sequence of its *)
(* "/"-separated segments.                                                 *)

Urls == {<<"album", "a1">>, <<"album", "a2", "">>}

Modes == {"none", "now", "next"}   \* neither flag, play_now, play_next

RECURSIVE RStrip(_)
\* url.rstrip('/'): without its trailing empty segments
RStrip(u) ==
    IF u # <<>> /\ u[Len(u)] = "" THEN RStrip(SubSeq(u, 1, Len(u) - 1)) ELSE u

\* download.py:117, 157: qobuz_url.rstrip('/').split('/')[-1]
AlbumIdOf(u) == IF RStrip(u) = <<>> THEN "" ELSE RStrip(u)[Len(RStrip(u))]

\* streamrip.py:16-58: what a successful "rip url" leaves in the storage
\* root: the file of the album, with the tags the store gave it
Rip(F, u) ==
    IF AlbumIdOf(u) = "a1"
    THEN [F EXCEPT !["p1"] = [artist |-> "ABBA", album |-> "Gold",
                              title |-> "Intro", tracknumber |-> 1]]
    ELSE [F EXCEPT !["p2"] = [artist |-> "", album |-> "", title |-> "",
                              tracknumber |-> NoNum]]

\* download.py:32-38: the tasks of a URL that are pending or downloading
InFlight(T, u) ==
    {i \in DOMAIN T : T[i].qobuz_url = u /\ T[i].status \in {"pending", "downloading"}}

\* download.py:181: sorted(album.tracks, key=(disc_number, track_number or 0)),
\* the tracks of an album as a sequence (rows of equal key in id order)
RECURSIVE SortedTracks(_, _)
SortedTracks(trk, S) ==
    IF S = {} THEN <<>>
    ELSE LET first == CHOOSE t \in S : \A o \in S :
                          \/ trk[t].track_number < trk[o].track_number
                          \/ trk[t].track_number = trk[o].track_number /\ t <= o
         IN  <<first>> \o SortedTracks(trk, S \ {first})

\* download.py:159-178: the album the URL resolves to, by qobuz_id, else
\* by qobuz_url (0: none, or scalar_one_or_none raised and was caught)
AlbumOfUrl(db, u) ==
    LET byId == {a \in DOMAIN db.albums : db.albums[a].qobuz_id = AlbumIdOf(u)}
        byUrl == {a \in DOMAIN db.albums : db.albums[a].qobuz_url = u}
    IN  IF Cardinality(byId) = 1 THEN CHOOSE a \in byId : TRUE
        ELSE IF byId = {} /\ Cardinality(byUrl) = 1 THEN CHOOSE a \in byUrl : TRUE
        ELSE 0

\* download.py:202-260: the rows _queue_downloaded_tracks inserts for the
\* track sequence ts, ids from id on (play_track_id not given)
QueueInserts(q, ts, id, first_position, first_playing) ==
    [i \in DOMAIN q \cup {id + k - 1 : k \in 1 .. Len(ts)} |->
        IF i \in DOMAIN q THEN q[i]
        ELSE [track_id |-> ts[i - id + 1],
              position |-> first_position + (i - id),
              is_playing |-> first_playing /\ i = id]]

\* _queue_downloaded_tracks(db, qobuz_url, None, play_now, play_next):
\* the new queue table
QueueDownloadedTracks(db, q, u, mode, id) ==
    LET album == AlbumOfUrl(db, u)
        ts == SortedTracks(db.tracks,
                  {t \in DOMAIN db.tracks : db.tracks[t].album_id = album})
        cur == CurrentItem(q)
    IN  IF album = 0 \/ ts = <<>> THEN q
        ELSE IF mode = "now" THEN QueueInserts(EmptyFn, ts, id, 1, TRUE)
        ELSE IF Cardinality(PlayingItems(q)) > 1 THEN q
        ELSE IF cur.found
        THEN QueueInserts(ShiftPositions(q, cur.position + 1, MaxPos(q), Len(ts)),
                          ts, id, cur.position + 1, FALSE)
        ELSE QueueInserts(q, ts, id, 1, FALSE)

-----------------------------------------------------------------------------
(* Download handlers and the background coroutine as actions *)

\* start_download(qobuz_url, play_now / play_next), run without
\* interleaving.  last.stats = [task, created, existing].
StartDownload(u, mode) ==
    LET existing == InFlight(tasks, u)
        new == seq.task
    IN  /\ IF Cardinality(existing) > 1
           THEN /\ Observe("start", TRUE,
                           [task |-> 0, created |-> FALSE, existing |-> existing])
                /\ UNCHANGED <<tasks, seq, execs, invoked>>
           ELSE IF existing # {}
           THEN /\ Observe("start", FALSE,
                           [task |-> CHOOSE i \in existing : TRUE,
                            created |-> FALSE, existing |-> existing])
                /\ UNCHANGED <<tasks, seq, execs, invoked>>
           ELSE /\ new <= MaxTaskId
                /\ tasks' = Insert(tasks, new,
                      [qobuz_url |-> u, status |-> "pending", error_message |-> NoId])
                /\ seq' = [seq EXCEPT !.task = @ + 1]
                /\ execs' = Insert(execs, new, [pc |-> "start", mode |-> mode,
                                                success |-> FALSE])
                /\ invoked' = Insert(invoked, new,
                                    [runs |-> 0, cancelled |-> FALSE,
                                     after_cancel |-> FALSE])
                /\ Observe("start", FALSE,
                           [task |-> new, created |-> TRUE, existing |-> existing])
        /\ UNCHANGED <<fs, artists, albums, tracks, queue, req, lock, history>>

\* cancel_download(task_id).  last.stats = [task, returned, was].
CancelDownload(id) ==
    /\ id \in DOMAIN tasks
    /\ IF tasks[id].status = "pending"
       THEN /\ tasks' = [tasks EXCEPT ![id].status = "cancelled"]
            /\ invoked' = [invoked EXCEPT ![id].cancelled = TRUE]
            /\ ObserveFull("cancel", FALSE,
                  [task |-> id, returned |-> TRUE, was |-> tasks[id].status],
                  TRUE, FALSE)
       ELSE /\ UNCHANGED <<tasks, invoked>>
            /\ ObserveFull("cancel", FALSE,
                  [task |-> id, returned |-> FALSE, was |-> tasks[id].status],
                  FALSE, FALSE)
    /\ UNCHANGED <<fs, artists, albums, tracks, queue, seq, execs, req, lock, history>>

\* retry_download(task_id): the background coroutine is started without
\* the play flags.  last.stats = [task, returned].
RetryDownload(id) ==
    /\ id \in DOMAIN tasks
    /\ seq.retry <= MaxRetries
    /\ IF tasks[id].status = "failed"
       THEN /\ tasks' = [tasks EXCEPT ![id].status = "pending",
                                      ![id].error_message = NoId]
            /\ execs' = Insert(execs, id, [pc |-> "start", mode |-> "none",
                                           success |-> FALSE])
            /\ seq' = [seq EXCEPT !.retry = @ + 1]
            /\ Observe("retry", FALSE, [task |-> id, returned |-> TRUE])
       ELSE /\ UNCHANGED <<tasks, execs, seq>>
            /\ Observe("retry", FALSE, [task |-> id, returned |-> FALSE])
    /\ UNCHANGED <<fs, artists, albums, tracks, queue, invoked, req, lock, history>>

\* download.py:64-77: the coroutine opens its session, loads the task by
\* id, sets task.status = "downloading" and commits
ExecMarkDownloading(id) ==
    /\ id \in DOMAIN execs
    /\ execs[id].pc = "start"
    /\ tasks' = [tasks EXCEPT ![id].status = "downloading"]
    /\ execs' = [execs EXCEPT ![id].pc = "marked"]
    /\ Observe("other", FALSE, ZeroStats)
    /\ UNCHANGED <<fs, artists, albums, tracks, queue, seq, invoked, req, lock, history>>

\* download.py:80-110: the download executor runs and succeeds or fails
ExecDownload(id, success) ==
    /\ id \in DOMAIN execs
    /\ execs[id].pc = "marked"
    /\ fs' = IF success THEN Rip(fs, tasks[id].qobuz_url) ELSE fs
    /\ invoked' = [invoked EXCEPT
                      ![id].runs = @ + 1,
                      ![id].after_cancel = @ \/ invoked[id].cancelled]
    /\ execs' = [execs EXCEPT ![id].pc = "ran", ![id].success = success]
    /\ Observe("other", FALSE, ZeroStats)
    /\ UNCHANGED <<artists, albums, tracks, queue, tasks, seq, req, lock, history>>

\* A coroutine that queues the album before it scans the download
ExecFinish_QueueBeforeScan(id) ==
    /\ id \in DOMAIN execs
    /\ execs[id].pc = "ran"
    /\ IF execs[id].success
       THEN \E order \in WalkOrders(Present(fs)) :
              LET u == tasks[id].qobuz_url
                  q == IF execs[id].mode = "none" THEN queue
                       ELSE QueueDownloadedTracks(Catalog, queue, u,
                                                  execs[id].mode, seq.item)
                  r == ScanDirectory(fs, Catalog, order, AlbumIdOf(u), u)
              IN  /\ artists' = r.db.artists
                  /\ albums' = r.db.albums
                  /\ tracks' = r.db.tracks
                  /\ queue' = q
                  /\ seq' = [r.db.seq EXCEPT !.item =
                               IF DOMAIN q \ DOMAIN queue = {} THEN @
                               ELSE Max(DOMAIN q) + 1]
                  /\ tasks' = [tasks EXCEPT ![id].status = "completed"]
       ELSE /\ tasks' = [tasks EXCEPT ![id].status = "failed",
                                      ![id].error_message = "Download failed"]
            /\ UNCHANGED <<artists, albums, tracks, queue, seq>>
    /\ execs' = Remove(execs, {id})
    /\ Observe("other", FALSE, ZeroStats)
    /\ UNCHANGED <<fs, invoked, req, lock, history>>

\* A coroutine that marks a failed task without a message
ExecFinish_NoMessage(id) ==
    /\ id \in DOMAIN execs
    /\ execs[id].pc = "ran"
    /\ ~execs[id].success
    /\ tasks' = [tasks EXCEPT ![id].status = "failed"]
    /\ execs' = Remove(execs, {id})
    /\ Observe("other", FALSE, ZeroStats)
    /\ UNCHANGED <<fs, artists, albums, tracks, queue, seq, invoked, req, lock, history>>

\* download.py:112-141: completed, the scan of the storage root under the
\* album id of the URL and the queueing of the album; or failed.
\* task.status = "completed" (line 113) is written in the session the scan
\* uses and is committed by the scan's first commit (music.py:108, 158,
\* 190-243, 370).  Every file either commits or raises before it commits,
\* and the scan answers a raise with a rollback of the session (music.py:
\* 361-368): when the first file raises, the status write is rolled back
\* with it and the commit of line 141 finds nothing to write.
ExecFinish(id) ==
    /\ id \in DOMAIN execs
    /\ execs[id].pc = "ran"
    /\ IF execs[id].success
       THEN \E order \in WalkOrders(Present(fs)) :
              LET u == tasks[id].qobuz_url
                  r == ScanDirectory(fs, Catalog, order, AlbumIdOf(u), u)
                  q == IF execs[id].mode = "none" THEN queue
                       ELSE QueueDownloadedTracks(r.db, queue, u,
                                                  execs[id].mode, seq.item)
                  first == ScanFile(fs, [db |-> Catalog, stats |-> ZeroStats],
                                    Head(order), AlbumIdOf(u), u)
                  rolled_back == /\ order # <<>>
                                 /\ first.stats.errors = 1
                                 /\ first.db = Catalog
              IN  /\ artists' = r.db.artists
                  /\ albums' = r.db.albums
                  /\ tracks' = r.db.tracks
                  /\ queue' = q
                  /\ seq' = [r.db.seq EXCEPT !.item =
                               IF DOMAIN q \ DOMAIN queue = {} THEN @
                               ELSE Max(DOMAIN q) + 1]
                  /\ tasks' = IF rolled_back THEN tasks
                              ELSE [tasks EXCEPT ![id].status = "completed"]
       ELSE /\ tasks' = [tasks EXCEPT ![id].status = "failed",
                                      ![id].error_message = "Download failed"]
            /\ UNCHANGED <<artists, albums, tracks, queue, seq>>
    /\ execs' = Remove(execs, {id})
    /\ Observe("other", FALSE, ZeroStats)
    /\ UNCHANGED <<fs, invoked, req, lock, history>>

NextDownload ==
    \/ \E u \in Urls, mode \in Modes : StartDownload(u, mode)
    \/ \E id \in DOMAIN tasks : CancelDownload(id)
    \/ \E id \in DOMAIN tasks : RetryDownload(id)
    \/ \E id \in DOMAIN execs : ExecMarkDownloading(id)
    \/ \E id \in DOMAIN execs, success \in BOOLEAN : ExecDownload(id, success)
    \/ \E id \in DOMAIN execs : ExecFinish(id)

SpecDownload == Init /\ [][NextDownload]_vars

-----------------------------------------------------------------------------
(* Download task properties, under SpecDownload *)

\* C2: at most one task per source URL is pending or downloading, and a
\* start_download for a URL that has such a task returns that task and
\* creates none.
C2_OneInFlightTaskPerUrl ==
    /\ \A u \in Urls : Cardinality(InFlight(tasks, u)) <= 1
    /\ (last.op = "start" /\ last.stats.existing # {}) =>
          /\ ~last.raised
          /\ ~last.stats.created
          /\ last.stats.task \in last.stats.existing

\* C8: a task that cancel_download has cancelled is never downloading and
\* the download executor never runs for it; cancel_download on a task that
\* is downloading returns false and leaves the task as it is.
C8_CancelledTaskNeverDownloads ==
    /\ \A id \in DOMAIN tasks :
          invoked[id].cancelled =>
              /\ tasks[id].status # "downloading"
              /\ ~invoked[id].after_cancel
    /\ (last.op = "cancel" /\ last.stats.was = "downloading") =>
          /\ ~last.stats.returned
          /\ ~last.changed

StatusEdges ==
    {<<"pending", "downloading">>, <<"pending", "cancelled">>,
     <<"downloading", "completed">>, <<"downloading", "failed">>,
     <<"downloading", "cancelled">>, <<"failed", "pending">>}

\* C9: the status of a task changes only along pending -> downloading,
\* pending -> cancelled, downloading -> completed | failed | cancelled and,
\* by retry_download, failed -> pending.
C9_StatusFollowsEdges ==
    [][\A id \in DOMAIN tasks :
          tasks'[id].status # tasks[id].status =>
              /\ <<tasks[id].status, tasks'[id].status>> \in StatusEdges
              /\ tasks[id].status = "failed" => last'.op = "retry"]_vars

-----------------------------------------------------------------------------
(* Two scans whose awaits interleave: the scan of a request                *)
(* (routers/music.py:112, 481) and the scan after a download               *)
(* (download.py:121-125).  Each runs in its own session; a SELECT sees the *)
(* committed tables, and between a lookup and the commit of the row it     *)
(* creates the other scan may run.                                         *)

Scanners == {1, 2}

NoPlan == [kind |-> "none", t |-> 0]
NoRow == [title |-> "", artist_id |-> 0, qobuz_id |-> NoId, qobuz_url |-> NoId,
          is_downloaded |-> FALSE]

\* The frame of a scan: where it stands in the loop body (pc), the files
\* still to process (rest), its external id and url, the artist id and the
\* album (id and row as loaded) of the current file, what add_track found
\* (plan), and its stats

\* music.py:361-368: the except branch: count the error, roll back, go on
\* with the next file
ScanRaise(f) ==
    [f EXCEPT !.stats.errors = @ + 1, !.rest = Tail(@),
              !.pc = IF Len(f.rest) > 1 THEN "artist" ELSE "done",
              !.artist = 0, !.album = 0, !.loaded = NoRow, !.plan = NoPlan]

\* scan_directory is entered: os.walk lists the files
ScanBegin(s, order, u) ==
    /\ req[s].pc = "idle"
    /\ req' = [req EXCEPT ![s] =
          [@ EXCEPT !.pc = IF order = <<>> THEN "done" ELSE "artist",
                    !.rest = order,
                    !.qid = IF u = <<>> THEN NoId ELSE AlbumIdOf(u),
                    !.qurl = IF u = <<>> THEN NoId ELSE u]]
    /\ UNCHANGED <<fs, artists, albums, tracks, queue, tasks, seq, execs,
                   invoked, lock, last, history>>

\* music.py:100-103: the SELECT of get_or_create_artist
ResolveArtist(s) ==
    LET f == req[s]
        name == ArtistNameOf(fs, Head(f.rest))
        found == {a \in DOMAIN artists : Lower(artists[a].name) = Lower(name)}
    IN  /\ f.pc = "artist"
        /\ req' = [req EXCEPT ![s] =
              IF Cardinality(found) > 1 THEN ScanRaise(f)
              ELSE IF found = {} THEN [f EXCEPT !.pc = "artist_new"]
              ELSE [f EXCEPT !.pc = "album", !.artist = CHOOSE a \in found : TRUE]]
        /\ UNCHANGED <<fs, artists, albums, tracks, queue, tasks, seq, execs,
                       invoked, lock, last, history>>

\* music.py:105-109: no artist was found: add, commit, refresh
CreateArtist(s) ==
    LET f == req[s]
    IN  /\ f.pc = "artist_new"
        /\ artists' = Insert(artists, seq.artist,
              [name |-> ArtistNameOf(fs, Head(f.rest)), qobuz_id |-> NoId])
        /\ seq' = [seq EXCEPT !.artist = @ + 1]
        /\ req' = [req EXCEPT ![s] = [f EXCEPT !.pc = "album", !.artist = seq.artist]]
        /\ UNCHANGED <<fs, albums, tracks, queue, tasks, execs, invoked, lock, last, history>>

\* music.py:132-147: the SELECTs of get_or_create_album
ResolveAlbum(s) ==
    LET f == req[s]
        title == AlbumTitleOf(fs, Head(f.rest))
        byId == {a \in DOMAIN albums : albums[a].qobuz_id = f.qid}
        byName == {a \in DOMAIN albums :
                      albums[a].title = title /\ albums[a].artist_id = f.artist}
        take(a) == [f EXCEPT !.pc = "track", !.album = a, !.loaded = albums[a]]
    IN  /\ f.pc = "album"
        /\ req' = [req EXCEPT ![s] =
              IF f.qid # NoId /\ Cardinality(byId) > 1 THEN ScanRaise(f)
              ELSE IF f.qid # NoId /\ byId # {} THEN take(CHOOSE a \in byId : TRUE)
              ELSE IF Cardinality(byName) > 1 THEN ScanRaise(f)
              ELSE IF byName = {} THEN [f EXCEPT !.pc = "album_new"]
              ELSE take(CHOOSE a \in byName : TRUE)]
        /\ UNCHANGED <<fs, artists, albums, tracks, queue, tasks, seq, execs,
                       invoked, lock, last, history>>

\* albums.qobuz_id is UNIQUE (models/music.py:27)
QobuzIdTaken(qid, but) ==
    qid # NoId /\ \E a \in DOMAIN albums \ {but} : albums[a].qobuz_id = qid

\* music.py:149-161: no album was found: add, commit, refresh.  The INSERT
\* of an external id another row carries by now raises.
CreateAlbum(s) ==
    LET f == req[s]
        row == [title |-> AlbumTitleOf(fs, Head(f.rest)), artist_id |-> f.artist,
                qobuz_id |-> f.qid, qobuz_url |-> f.qurl, is_downloaded |-> FALSE]
    IN  /\ f.pc = "album_new"
        /\ IF QobuzIdTaken(f.qid, 0)
           THEN /\ req' = [req EXCEPT ![s] = ScanRaise(f)]
                /\ UNCHANGED <<albums, seq>>
           ELSE /\ albums' = Insert(albums, seq.album, row)
                /\ seq' = [seq EXCEPT !.album = @ + 1]
                /\ req' = [req EXCEPT ![s] =
                      [f EXCEPT !.pc = "track", !.album = seq.album, !.loaded = row]]
        /\ UNCHANGED <<fs, artists, tracks, queue, tasks, execs, invoked, lock, last,
                    history>>

\* music.py:195-222: the SELECTs of add_track (no track id is passed)
ResolveTrack(s) ==
    LET f == req[s]
        p == Head(f.rest)
        byPath == {t \in DOMAIN tracks : tracks[t].file_path = p}
        byTriple == {t \in DOMAIN tracks :
                        /\ tracks[t].album_id = f.album
                        /\ tracks[t].track_number = fs[p].tracknumber
                        /\ tracks[t].title = TrackTitleOf(fs, p)}
        plan(k, t) == [f EXCEPT !.pc = "track_write", !.plan = [kind |-> k, t |-> t]]
    IN  /\ f.pc = "track"
        /\ req' = [req EXCEPT ![s] =
              IF Cardinality(byPath) > 1 THEN ScanRaise(f)
              ELSE IF byPath # {} THEN plan("path", CHOOSE t \in byPath : TRUE)
              ELSE IF Cardinality(byTriple) > 1 THEN ScanRaise(f)
              ELSE IF byTriple # {} THEN plan("relink", CHOOSE t \in byTriple : TRUE)
              ELSE plan("new", 0)]
        /\ UNCHANGED <<fs, artists, albums, tracks, queue, tasks, seq, execs,
                       invoked, lock, last, history>>

\* music.py:329-338 as the commit of add_track flushes it: the columns of
\* the album that differ from the row as loaded
MarkLoaded(alb, f) ==
    [alb EXCEPT ![f.album] =
        [@ EXCEPT !.qobuz_id = IF f.qid # NoId /\ f.loaded.qobuz_id = NoId
                               THEN f.qid ELSE @,
                  !.qobuz_url = IF f.qurl # NoId /\ f.loaded.qobuz_url = NoId
                                THEN f.qurl ELSE @,
                  !.is_downloaded = TRUE]]

\* music.py:199-212, 223-227, 229-242 and 359: add_track writes and
\* commits, with the album changes of the loop body
WriteTrack(s) ==
    LET f == req[s]
        p == Head(f.rest)
        db == [Catalog EXCEPT !.albums = MarkLoaded(albums, f)]
        title == TrackTitleOf(fs, p)
        new == [title |-> title, artist_id |-> f.artist, album_id |-> f.album,
                qobuz_id |-> NoId, track_number |-> fs[p].tracknumber,
                file_path |-> p, is_downloaded |-> TRUE, play_count |-> 0]
        out == IF f.plan.kind = "path"
               THEN AddTrackByPath(db, f.plan.t, title, f.artist, f.album,
                                   fs[p].tracknumber).tracks
               ELSE IF f.plan.kind = "relink"
               THEN [tracks EXCEPT ![f.plan.t].file_path = p,
                                   ![f.plan.t].is_downloaded = TRUE]
               ELSE Insert(tracks, seq.track, new)
        stats1 == IF f.loaded.is_downloaded THEN f.stats
                  ELSE [f.stats EXCEPT !.albums = @ + 1]
    IN  /\ f.pc = "track_write"
        /\ IF f.loaded.qobuz_id = NoId /\ QobuzIdTaken(f.qid, f.album)
           THEN /\ req' = [req EXCEPT ![s] = ScanRaise([f EXCEPT !.stats = stats1])]
                /\ UNCHANGED <<albums, tracks, seq>>
           ELSE /\ albums' = db.albums
                /\ tracks' = out
                /\ seq' = IF f.plan.kind = "new"
                          THEN [seq EXCEPT !.track = @ + 1] ELSE seq
                /\ req' = [req EXCEPT ![s] =
                      [f EXCEPT !.stats = [stats1 EXCEPT !.tracks = @ + 1],
                                !.rest = Tail(@),
                                !.pc = IF Len(f.rest) > 1 THEN "artist" ELSE "done",
                                !.artist = 0, !.album = 0, !.loaded = NoRow,
                                !.plan = NoPlan]]
        /\ UNCHANGED <<fs, artists, queue, tasks, execs, invoked, lock, last, history>>

\* The files of a finished download lie in the storage root, the database
\* is empty
InitScanRace ==
    /\ fs = Rip(Rip([p \in Paths |-> NoFile], <<"album", "a1">>), <<"album", "a2", "">>)
    /\ artists = EmptyFn
    /\ albums = EmptyFn
    /\ tracks = EmptyFn
    /\ queue = EmptyFn
    /\ tasks = EmptyFn
    /\ seq = InitSeq
    /\ execs = EmptyFn
    /\ invoked = EmptyFn
    /\ req = [s \in Scanners |->
                 [pc |-> "idle", rest |-> <<>>, qid |-> NoId, qurl |-> NoId,
                  artist |-> 0, album |-> 0, loaded |-> NoRow, plan |-> NoPlan,
                  stats |-> ZeroStats]]
    /\ lock = 0
    /\ last = InitLast
    /\ history = <<>>

NextScanRace ==
    \/ \E s \in Scanners, order \in WalkOrders(Present(fs)), u \in Urls \cup {<<>>} :
          ScanBegin(s, order, u)
    \/ \E s \in Scanners : ResolveArtist(s)
    \/ \E s \in Scanners : CreateArtist(s)
    \/ \E s \in Scanners : ResolveAlbum(s)
    \/ \E s \in Scanners : CreateAlbum(s)
    \/ \E s \in Scanners : ResolveTrack(s)
    \/ \E s \in Scanners : WriteTrack(s)

SpecScanRace == InitScanRace /\ [][NextScanRace]_vars

\* C11: when two scans run concurrently and resolve the same new artist,
\* album or track, one row is created for it: no two artists of the same
\* (case-folded) name, no two albums of the same title and artist, no two
\* tracks of the same file.
C11_OneRowPerResolution ==
    /\ \A a, b \in DOMAIN artists :
          Lower(artists[a].name) = Lower(artists[b].name) => a = b
    /\ \A a, b \in DOMAIN albums :
          (albums[a].title = albums[b].title
           /\ albums[a].artist_id = albums[b].artist_id) => a = b
    /\ \A t, o \in DOMAIN tracks :
          tracks[t].file_path = tracks[o].file_path => t = o

-----------------------------------------------------------------------------
(* The downloads of one album: every request names the same source URL *)

NextDownloadOne ==
    \/ \E mode \in Modes : StartDownload(<<"album", "a1">>, mode)
    \/ \E id \in DOMAIN tasks : CancelDownload(id)
    \/ \E id \in DOMAIN tasks : RetryDownload(id)
    \/ \E id \in DOMAIN execs : ExecMarkDownloading(id)
    \/ \E id \in DOMAIN execs, success \in BOOLEAN : ExecDownload(id, success)
    \/ \E id \in DOMAIN execs : ExecFinish(id)

SpecDownloadOne == Init /\ [][NextDownloadOne]_vars

\* C12: when the executor reports non-success, the coroutine ends with the
\* task failed and a non-empty error message and leaves the artist, album,
\* track and queue rows as they are; a failed task has no coroutine, and it
\* leaves "failed" (and so reaches the executor again) only by a retry.
C12_FailedDownloadChangesNothing ==
    /\ [](\A id \in DOMAIN tasks :
            tasks[id].status = "failed" =>
                /\ id \notin DOMAIN execs
                /\ tasks[id].error_message \notin {NoId, ""})
    /\ [][\A id \in DOMAIN execs :
            (execs[id].pc = "ran" /\ ~execs[id].success /\ id \notin DOMAIN execs') =>
                /\ tasks'[id].status = "failed"
                /\ tasks'[id].error_message \notin {NoId, ""}
                /\ UNCHANGED <<artists, albums, tracks, queue>>]_vars
    /\ [][\A id \in DOMAIN tasks :
            /\ (tasks[id].status = "failed" /\ tasks'[id].status # "failed") =>
                  last'.op = "retry"
            /\ invoked'[id].runs > invoked[id].runs =>
                  tasks[id].status = "downloading"]_vars

\* A download has failed while the catalog and the queue hold the rows of
\* an earlier, successful one
C12_FailedBesideRows ==
    /\ \E id \in DOMAIN tasks :
          tasks[id].status = "failed" /\ invoked[id].runs > 0
    /\ DOMAIN tracks # {}
    /\ DOMAIN queue # {}

-----------------------------------------------------------------------------
(* Playback: POST /queue/next, POST /queue/previous and the play history   *)

MaxPlays == 2

\* A query "position >= pos ORDER BY position LIMIT 1"
NextCandidates_Inclusive(q, pos) ==
    {i \in DOMAIN q :
        /\ q[i].position >= pos
        /\ \A j \in DOMAIN q : q[j].position >= pos => q[i].position <= q[j].position}

\* queue.py:316-321: position > pos ORDER BY position LIMIT 1; among rows
\* of one position the database returns any
NextCandidates(q, pos) ==
    {i \in DOMAIN q :
        /\ q[i].position > pos
        /\ \A j \in DOMAIN q : q[j].position > pos => q[i].position <= q[j].position}

\* queue.py:350-355: position < pos ORDER BY position DESC LIMIT 1
PrevCandidates(q, pos) ==
    {i \in DOMAIN q :
        /\ q[i].position < pos
        /\ \A j \in DOMAIN q : q[j].position < pos => q[j].position <= q[i].position}

\* the rows off stop playing, the rows on start playing
SetPlaying(q, off, on) ==
    [i \in DOMAIN q |->
        IF i \in on THEN [q[i] EXCEPT !.is_playing = TRUE]
        ELSE IF i \in off THEN [q[i] EXCEPT !.is_playing = FALSE]
        ELSE q[i]]

\* the row sets a LIMIT 1 query over the candidates can return
OneOf(cands) == IF cands = {} THEN {{}} ELSE {{i} : i \in cands}

\* queue.py:341-347: the position play_previous looks below
PreviousFrom(q) ==
    IF PlayingItems(q) # {} THEN CurrentItem(q).position ELSE MaxPos(q) + 1

\* A play_previous whose query is position <= current_pos
PlayPreviousResult_Inclusive(q, on) ==
    on \in OneOf(PrevCandidates(q, PreviousFrom(q) + 1))

\* play_previous(): on is the row the LIMIT 1 query returned
PlayPreviousResult(q, on) ==
    on \in OneOf(PrevCandidates(q, PreviousFrom(q)))

\* A log that keeps the latest play only
AppendPlay_Latest(h, t) == <<[track_id |-> t]>>

\* queue.py:300-304, routers/music.py:399-400: a play_history row for track t
AppendPlay(h, t) == Append(h, [track_id |-> t])

\* POST /queue/next.  last.stats = [origin]: the position of the row that
\* was playing when it had a row before and a row after it, else 0.
PlayNext ==
    LET playing == PlayingItems(queue)
        pos == CurrentItem(queue).position
        in_the_middle == /\ Cardinality(playing) = 1
                         /\ \E i, j \in DOMAIN queue :
                               /\ queue[i].position < pos
                               /\ queue[j].position > pos
    IN  /\ playing # {} => Len(history) < MaxPlays
        /\ IF Cardinality(playing) > 1
           THEN /\ Observe("next", TRUE, [origin |-> 0])
                /\ UNCHANGED <<queue, tracks, history>>
           ELSE /\ \E on \in OneOf(NextCandidates(queue, pos)) :
                      queue' = SetPlaying(queue, playing, on)
                /\ history' = IF playing = {} THEN history
                              ELSE AppendPlay(history,
                                     queue[CHOOSE i \in playing : TRUE].track_id)
                /\ tracks' = IF playing = {} THEN tracks
                             ELSE [tracks EXCEPT
                                     ![queue[CHOOSE i \in playing : TRUE].track_id].play_count = @ + 1]
                /\ Observe("next", FALSE,
                           [origin |-> IF in_the_middle THEN pos ELSE 0])
        /\ UNCHANGED <<fs, artists, albums, tasks, seq, execs, invoked, req, lock>>

\* POST /queue/previous.  last.stats = [origin]: the origin of the
\* play_next that ran just before, else 0.
PlayPrevious ==
    LET playing == PlayingItems(queue)
    IN  /\ IF Cardinality(playing) > 1
           THEN /\ Observe("previous", TRUE, [origin |-> 0])
                /\ UNCHANGED queue
           ELSE /\ \E on \in SUBSET DOMAIN queue :
                      /\ PlayPreviousResult(queue, on)
                      /\ queue' = SetPlaying(queue, playing, on)
                /\ Observe("previous", FALSE,
                           [origin |-> IF last.op = "next" /\ ~last.raised
                                       THEN last.stats.origin ELSE 0])
        /\ UNCHANGED <<fs, artists, albums, tracks, tasks, seq, execs, invoked,
                       req, lock, history>>

\* The queue under adds and the two skips
NextPlayback ==
    \/ \E t \in DOMAIN tracks, play_now, play_next \in BOOLEAN :
          AddToQueue(t, play_now, play_next)
    \/ PlayNext
    \/ PlayPrevious

SpecPlayback == InitQueue /\ [][NextPlayback]_vars

\* C14: when play_next runs from a playing row that has a row before it
\* and a row after it, and play_previous runs next, exactly one row is
\* playing and its position is the position of the row that played first.
C14_NextThenPreviousRestores ==
    (last.op = "previous" /\ last.stats.origin # 0) =>
        /\ ~last.raised
        /\ Cardinality(PlayingItems(queue)) = 1
        /\ CurrentItem(queue).position = last.stats.origin

\* play_previous has just undone a play_next from the middle of the queue
C14_WentBackFromTheMiddle ==
    /\ last.op = "previous"
    /\ last.stats.origin # 0
    /\ Len(history) > 0
    /\ Cardinality(DOMAIN queue) >= 3

-----------------------------------------------------------------------------
(* Result merge: routers/search.py.  A title or name is the sequence of    *)
(* its characters; a result is [qobuz_id, title, artist_name, album_title] *)

MaxResults == 2

Spaces == {" ", "\t"}
WordChars == {"a", "b", "x", "y", "A", "B", "X", "_", "7"}

\* str.lower() on one character
LowerChar(c) ==
    CASE c = "A" -> "a"
      [] c = "B" -> "b"
      [] c = "X" -> "x"
      [] OTHER -> c

\* the characters before the first whitespace of s
RECURSIVE FirstWord(_)
FirstWord(s) ==
    IF s = <<>> \/ Head(s) \in Spaces THEN <<>>
    ELSE <<Head(s)>> \o FirstWord(Tail(s))

\* str.split(): the runs of characters between whitespace
RECURSIVE SplitWords(_)
SplitWords(s) ==
    IF s = <<>> THEN <<>>
    ELSE IF Head(s) \in Spaces THEN SplitWords(Tail(s))
    ELSE <<FirstWord(s)>> \o SplitWords(SubSeq(s, Len(FirstWord(s)) + 1, Len(s)))

\* ' '.join(words)
RECURSIVE JoinWords(_)
JoinWords(words) ==
    IF words = <<>> THEN <<>>
    ELSE IF Len(words) = 1 THEN words[1]
    ELSE words[1] \o <<" ">> \o JoinWords(Tail(words))

\* A normalize_title that only lowercases
NormalizeTitle_LowerOnly(title) ==
    [i \in 1 .. Len(title) |-> LowerChar(title[i])]

\* normalize_title(title): lowercase, re.sub(r'[^\w\s]', '', ...), then
\* ' '.join(....split()).  None and '' give ''.
NormalizeTitle(title) ==
    JoinWords(SplitWords(
        SelectSeq([i \in 1 .. Len(title) |-> LowerChar(title[i])],
                  LAMBDA c : c \in WordChars \cup Spaces)))

\* the title+artist key of an album result, the title+artist+album key of
\* a track result; kind is "albums" or "tracks"
KeyOf(kind, r) ==
    IF kind = "albums"
    THEN <<NormalizeTitle(r.title), NormalizeTitle(r.artist_name)>>
    ELSE <<NormalizeTitle(r.title), NormalizeTitle(r.artist_name),
           NormalizeTitle(r.album_title)>>

\* The first loop of a merge: every local result is kept, its id (when it
\* has one) and its key are remembered.

SeenLocal(kind, local) ==
    [merged |-> local,
     ids |-> {local[i].qobuz_id : i \in DOMAIN local} \ {NoId},
     keys |-> {KeyOf(kind, local[i]) : i \in DOMAIN local}]

\* The second loop: a remote result is skipped when its id or its key was
\* seen, else appended and remembered
RECURSIVE MergeRemote(_, _, _)
MergeRemote(kind, acc, remote) ==
    IF remote = <<>> THEN acc.merged
    ELSE LET r == Head(remote)
         IN  IF (r.qobuz_id # NoId /\ r.qobuz_id \in acc.ids)
                \/ KeyOf(kind, r) \in acc.keys
             THEN MergeRemote(kind, acc, Tail(remote))
             ELSE MergeRemote(kind,
                     [merged |-> Append(acc.merged, r),
                      ids |-> acc.ids \cup ({r.qobuz_id} \ {NoId}),
                      keys |-> acc.keys \cup {KeyOf(kind, r)}],
                     Tail(remote))

MergeAlbumResults(local, remote) ==
    MergeRemote("albums", SeenLocal("albums", local), remote)

MergeTrackResults(local, remote) ==
    MergeRemote("tracks", SeenLocal("tracks", local), remote)

\* The result lists of at most n results a search can return: one title
\* under several spellings, ids, artists and albums
Lists(n) ==
    LET Result(id, title, artist, album) ==
            [qobuz_id |-> id, title |-> title, artist_name |-> artist,
             album_title |-> album]
        SearchResults ==
            {Result("123", <<"a", " ", "b">>, <<"x">>, <<>>),
             Result(NoId, <<"A", " ", " ", "B", "!">>, <<" ", "X", ".">>, <<>>),
             Result("123", <<"a", "_", "b">>, <<"y">>, <<"7">>),
             Result(NoId, <<"a", "_", "b">>, <<"x">>, <<>>),
             Result(NoId, <<"a", "\t", "b">>, <<"x">>, <<"7">>),
             Result("456", <<"a", " ", "b">>, <<"y">>, <<>>)}
    IN  UNION {[1 .. k -> SearchResults] : k \in 0 .. n}

\* A search request: its two result lists, and the merged list once the
\* merge ran
InitMerge ==
    /\ fs = [p \in Paths |-> NoFile]
    /\ artists = EmptyFn
    /\ albums = EmptyFn
    /\ tracks = EmptyFn
    /\ queue = EmptyFn
    /\ tasks = EmptyFn
    /\ seq = InitSeq
    /\ execs = EmptyFn
    /\ invoked = EmptyFn
    /\ \E local \in Lists(MaxResults), remote \in Lists(MaxResults) :
          req = [pc |-> "search", kind |-> "none", local |-> local,
                 remote |-> remote, merged |-> <<>>]
    /\ lock = 0
    /\ last = InitLast
    /\ history = <<>>

\* search.py:87: the album search merges its two lists
SearchAlbums ==
    /\ req.pc = "search"
    /\ req' = [req EXCEPT !.pc = "merged", !.kind = "albums",
                          !.merged = MergeAlbumResults(req.local, req.remote)]
    /\ UNCHANGED <<fs, artists, albums, tracks, queue, tasks, seq, execs,
                   invoked, lock, last, history>>

\* search.py:107: the track search merges its two lists
SearchTracks ==
    /\ req.pc = "search"
    /\ req' = [req EXCEPT !.pc = "merged", !.kind = "tracks",
                          !.merged = MergeTrackResults(req.local, req.remote)]
    /\ UNCHANGED <<fs, artists, albums, tracks, queue, tasks, seq, execs,
                   invoked, lock, last, history>>

NextMerge == SearchAlbums \/ SearchTracks

SpecMerge == InitMerge /\ [][NextMerge]_vars

\* Two strings are the same once case, punctuation (every character that
\* is neither a letter, a digit, an underscore nor whitespace) and the
\* amount of whitespace are ignored
SpelledAlike(a, b) ==
    LET words(t) == SplitWords(SelectSeq(
                        [i \in 1 .. Len(t) |-> LowerChar(t[i])],
                        LAMBDA c : c \in WordChars \cup Spaces))
    IN  words(a) = words(b)

\* a remote result matches a local one by external id, or by title and
\* artist (and album, for tracks)
MatchesLocal(kind, r, local) ==
    \E i \in DOMAIN local :
        \/ r.qobuz_id # NoId /\ r.qobuz_id = local[i].qobuz_id
        \/ /\ SpelledAlike(r.title, local[i].title)
           /\ SpelledAlike(r.artist_name, local[i].artist_name)
           /\ kind = "tracks" => SpelledAlike(r.album_title, local[i].album_title)

-----------------------------------------------------------------------------
(* External album ids, under SpecDownload *)

\* the albums that carry the title and the artist the file at p resolves
\* to, under an external id other than y
NamesakesOf(p, y) ==
    {a \in DOMAIN albums :
        /\ albums[a].title = AlbumTitleOf(fs, p)
        /\ Lower(artists[albums[a].artist_id].name) = Lower(ArtistNameOf(fs, p))
        /\ albums[a].qobuz_id \notin {NoId, y}}

\* C16: when the scan of a completed download supplies the external album
\* id Y and meets a file whose title and artist are those of an album that
\* carries another external id X, the file's track is not attached to the
\* album carrying X but to an album row of its own that carries Y.
C16_ExternalIdNotMergedByName ==
    [][\A id \in DOMAIN execs :
          (execs[id].pc = "ran" /\ execs[id].success /\ id \notin DOMAIN execs') =>
              \A p \in Present(fs) :
                  NamesakesOf(p, AlbumIdOf(tasks[id].qobuz_url)) # {} =>
                      \A t \in DOMAIN tracks' :
                          tracks'[t].file_path = p =>
                              albums'[tracks'[t].album_id].qobuz_id =
                                  AlbumIdOf(tasks[id].qobuz_url)]_vars

-----------------------------------------------------------------------------
(* Per-file failures of a scan *)

\* The catalog under scans and verifications, with files of any tags,
\* over-long titles included
NextScanAny ==
    \/ \E p \in Paths, tags \in Tags \cup {LongTags} : WriteFile(p, tags)
    \/ \E p \in Paths : DeleteFile(p)
    \/ ScanLibrary
    \/ Verify
    \/ \E t \in DOMAIN tracks : CheckTrack(t)

SpecScanAny == Init /\ [][NextScanAny]_vars

\* the catalog has the track of the file at p as the file is now
ScannedFile(p) ==
    \E t \in DOMAIN tracks :
        /\ tracks[t].file_path = p
        /\ tracks[t].title = TrackTitleOf(fs, p)
        /\ tracks[t].is_downloaded

\* C17: a scan counts, for every file, either an error or a track, and
\* every artist or album row it created belongs to a file whose track is in
\* the catalog after it: what was written for a file that failed is gone.
C17_FailedFileRolledBackAlone ==
    [][last'.op = "scan" =>
          /\ last'.stats.errors + last'.stats.tracks = Cardinality(Present(fs))
          /\ \A a \in DOMAIN artists' \ DOMAIN artists :
                \E p \in Present(fs) :
                    /\ ScannedFile(p)'
                    /\ Lower(ArtistNameOf(fs, p)) = Lower(artists'[a].name)
          /\ \A al \in DOMAIN albums' \ DOMAIN albums :
                \E p \in Present(fs) :
                    /\ ScannedFile(p)'
                    /\ AlbumTitleOf(fs, p) = albums'[al].title]_vars

-----------------------------------------------------------------------------
(* Track rows, under SpecScan *)

\* C18: in every state that scans (add_track), verifications and
\* availability checks reach, a track that is marked downloaded has a file
\* path.
C18_DownloadedHasPath ==
    \A t \in DOMAIN tracks : tracks[t].is_downloaded => tracks[t].file_path # NoPath

\* one track lost its file and was cleared, another is downloaded
C18_ClearedBesideDownloaded ==
    /\ \E t \in DOMAIN tracks :
          ~tracks[t].is_downloaded /\ tracks[t].file_path = NoPath
    /\ \E t \in DOMAIN tracks : tracks[t].is_downloaded

-----------------------------------------------------------------------------
(* The play history beside the queue, scans and verifications *)

\* POST /music/history/{track_id}: 404 for an id that is no track, else the
\* play is counted and logged
RecordPlay(t) ==
    /\ Len(history) < MaxPlays
    /\ IF t \notin DOMAIN tracks
       THEN /\ Observe("other", TRUE, ZeroStats)
            /\ UNCHANGED <<tracks, history>>
       ELSE /\ tracks' = [tracks EXCEPT ![t].play_count = @ + 1]
            /\ history' = AppendPlay(history, t)
            /\ Observe("other", FALSE, ZeroStats)
    /\ UNCHANGED <<fs, artists, albums, queue, tasks, seq, execs, invoked,
                   req, lock>>

\* A scanned library whose files get deleted, with tracks queued, skipped
\* and played
NextHistory ==
    \/ \E p \in Paths : DeleteFile(p)
    \/ ScanLibrary
    \/ Verify
    \/ \E t \in DOMAIN tracks : CheckTrack(t)
    \/ \E t \in DOMAIN tracks, play_now \in BOOLEAN :
          Cardinality(DOMAIN queue) < MaxQueued /\ AddToQueue(t, play_now, FALSE)
    \/ \E item \in DOMAIN queue : RemoveFromQueue(item)
    \/ PlayNext
    \/ PlayPrevious
    \/ \E t \in 1 .. MaxRowId : RecordPlay(t)

SpecHistory == InitQueue /\ [][NextHistory]_vars

\* C19: no step of next, previous, record_play, a queue mutation, a scan or
\* a verification changes or removes a play_history row: the log after a
\* step starts with the log before it.
C19_PlayHistoryAppendOnly ==
    [][/\ Len(history') >= Len(history)
       /\ SubSeq(history', 1, Len(history)) = history]_vars

\* a verification met a played track whose file is gone, and failed on it
C19_VerifyMetPlayedTrack ==
    /\ last.op = "verify"
    /\ last.raised
    /\ \E i \in DOMAIN history :
          /\ history[i].track_id \in DOMAIN tracks
          /\ tracks[history[i].track_id].file_path # NoPath
          /\ fs[tracks[history[i].track_id].file_path] = NoFile
    /\ DOMAIN queue = {}

-----------------------------------------------------------------------------
(* Metadata from the path: music.py:288-315, 378-529.  A directory name or *)
(* a file name is the sequence of its tokens: words, " ", "-", ".", single *)
(* digits, and "(dddd)" for a year in parentheses.  None and '' are <<>>.  *)

MaxTrackNo == 3

Digits == {"0", "1", "2", "3", "4"}

DigitValue(d) ==
    CASE d = "0" -> 0 [] d = "1" -> 1 [] d = "2" -> 2 [] d = "3" -> 3
      [] d = "4" -> 4

\* int(digits)
RECURSIVE IntOf(_)
IntOf(ds) ==
    IF ds = <<>> THEN 0
    ELSE 10 * IntOf(SubSeq(ds, 1, Len(ds) - 1)) + DigitValue(ds[Len(ds)])

\* the longest prefix of s whose tokens are all in the class C
RECURSIVE Leading(_, _)
Leading(s, C) ==
    IF s = <<>> \/ Head(s) \notin C THEN <<>>
    ELSE <<Head(s)>> \o Leading(Tail(s), C)

After(s, n) == SubSeq(s, n + 1, Len(s))

RECURSIVE RStripSpaces(_)
RStripSpaces(s) ==
    IF s # <<>> /\ s[Len(s)] = " " THEN RStripSpaces(SubSeq(s, 1, Len(s) - 1))
    ELSE s

\* str.strip()
Strip(s) == RStripSpaces(After(s, Len(Leading(s, {" "}))))

\* Where (.+?)\s*-\s*(.+) splits s: the first "-" that has a token before
\* it and a token after it; with spaced, \s+-\s+: the first "-" between
\* spaces.  0: no match.
SplitAt(s, spaced) ==
    LET hs == {h \in 2 .. Len(s) - 1 :
                  /\ s[h] = "-"
                  /\ spaced => /\ h >= 3 /\ s[h - 1] = " "
                               /\ h + 2 <= Len(s) /\ s[h + 1] = " "}
    IN  IF hs = {} THEN 0 ELSE CHOOSE h \in hs : \A k \in hs : h <= k

\* (.+?)(?:\s*\(\d{4}\))?$ : s without a year in parentheses at its end
DropYear(s) ==
    IF Len(s) >= 2 /\ s[Len(s)] = "(1979)"
       /\ RStripSpaces(SubSeq(s, 1, Len(s) - 1)) # <<>>
    THEN RStripSpaces(SubSeq(s, 1, Len(s) - 1))
    ELSE s

\* _extract_artist_album_from_path(directory): [artist, album]
ExtractArtistAlbumFromPath(dir) ==
    LET h == SplitAt(dir, TRUE)
    IN  IF h # 0
        THEN [artist |-> Strip(SubSeq(dir, 1, h - 1)),
              album |-> Strip(DropYear(After(dir, h)))]
        ELSE [artist |-> <<>>, album |-> dir]

\* _clean_filename_for_title(filename), base the name without extension;
\* {".", " ", "-"} is the class [.\s-]
CleanFilenameForTitle(base) ==
    LET ds == Leading(base, Digits)
        seps == Leading(After(base, Len(ds)), {".", " ", "-"})
        rest == IF ds # <<>> /\ seps # <<>>
                THEN After(base, Len(ds) + Len(seps)) ELSE base
        hs == {h \in 2 .. Len(rest) - 1 :
                  rest[h - 1] = " " /\ rest[h] = "-" /\ rest[h + 1] = " "}
        cut == IF hs = {} THEN rest
               ELSE After(rest, 1 + CHOOSE h \in hs : \A k \in hs : h <= k)
    IN  IF Strip(cut) # <<>> THEN Strip(cut) ELSE base

\* _extract_metadata_from_path(file_path, filename, directory):
\* [artist, album, title, tracknumber]
ExtractMetadataFromPath(dir, base) ==
    LET h == SplitAt(dir, FALSE)
        dir_artist == IF h # 0 THEN Strip(SubSeq(dir, 1, h - 1)) ELSE <<>>
        dir_album == IF h # 0 THEN Strip(DropYear(After(dir, h))) ELSE dir
        ds == Leading(base, Digits)
        all_seps == Leading(After(base, Len(ds)), {".", " ", "-"})
        \* [.\s-]+ gives its last token back when nothing follows it
        seps == IF Len(ds) + Len(all_seps) = Len(base) /\ all_seps # <<>>
                THEN SubSeq(all_seps, 1, Len(all_seps) - 1) ELSE all_seps
        matched == ds # <<>> /\ seps # <<>>
        rest == After(base, Len(ds) + Len(seps))
        g == SplitAt(rest, FALSE)
        file_artist == IF matched /\ g # 0 THEN Strip(SubSeq(rest, 1, g - 1)) ELSE <<>>
    IN  [artist |-> IF dir_artist # <<>> THEN dir_artist ELSE file_artist,
         album |-> dir_album,
         title |-> IF ~matched THEN base
                   ELSE IF g # 0 THEN Strip(After(rest, g)) ELSE Strip(rest),
         tracknumber |-> IF matched THEN IntOf(ds) ELSE NoNum]

\* music.py:289-315, 349-356: what the scan resolves for the file base in
\* the directory dir; read: the tags were read (and are empty), else
\* reading them failed (_extract_metadata returned None)
ResolveFile(dir, base, read) ==
    LET metadata == IF read
                    THEN [artist |-> <<>>, album |-> <<>>, title |-> <<>>,
                          tracknumber |-> NoNum]
                    ELSE ExtractMetadataFromPath(dir, base)
        folder == ExtractArtistAlbumFromPath(dir)
        asks == \/ metadata.artist = <<>> \/ metadata.album = <<>>
                \/ metadata.artist = <<UnknownArtist>>
    IN  [artist |-> IF asks /\ (\/ Strip(metadata.artist) = <<>>
                                \/ metadata.artist = <<UnknownArtist>>)
                    THEN (IF folder.artist # <<>> THEN folder.artist
                          ELSE <<UnknownArtist>>)
                    ELSE metadata.artist,
         album |-> IF asks /\ Strip(metadata.album) = <<>>
                   THEN (IF folder.album # <<>> THEN folder.album
                         ELSE <<UnknownAlbum>>)
                   ELSE metadata.album,
         title |-> IF Strip(metadata.title) = <<>>
                   THEN CleanFilenameForTitle(base) ELSE metadata.title,
         tracknumber |-> metadata.tracknumber]

\* An untagged file at such a path, before the scan meets it
InitPath ==
    /\ fs = [p \in Paths |-> NoFile]
    /\ artists = EmptyFn
    /\ albums = EmptyFn
    /\ tracks = EmptyFn
    /\ queue = EmptyFn
    /\ tasks = EmptyFn
    /\ seq = InitSeq
    /\ execs = EmptyFn
    /\ invoked = EmptyFn
    /\ \E artist \in {<<"Pink", " ", "Floyd">>, <<"Abba">>},
          album \in {<<"The", " ", "Wall">>, <<"Gold">>},
          title \in {<<"In", " ", "The", " ", "Flesh">>, <<"Intro">>,
                     <<"S", ".", "O", ".", "S">>},
          n \in 1 .. MaxTrackNo :
          req = [pc |-> "found", artist |-> artist, album |-> album,
                 title |-> title, n |-> n, read |-> FALSE,
                 resolved |-> [artist |-> <<>>, album |-> <<>>, title |-> <<>>,
                               tracknumber |-> NoNum]]
    /\ lock = 0
    /\ last = InitLast
    /\ history = <<>>

\* music.py:288-357: the scan resolves the file at '<Artist> - <Album>
\* (Year)/<NN>. <Artist> - <Title>'; read: how reading its tags went
ScanResolve(read) ==
    LET nn == <<CHOOSE d \in Digits : DigitValue(d) = req.n \div 10,
                CHOOSE d \in Digits : DigitValue(d) = req.n % 10>>
        dir == req.artist \o <<" ", "-", " ">> \o req.album \o <<" ", "(1979)">>
        base == nn \o <<".", " ">> \o req.artist \o <<" ", "-", " ">> \o req.title
    IN  /\ req.pc = "found"
        /\ req' = [req EXCEPT !.pc = "resolved", !.read = read,
                              !.resolved = ResolveFile(dir, base, read)]
        /\ UNCHANGED <<fs, artists, albums, tracks, queue, tasks, seq, execs,
                       invoked, lock, last, history>>

NextPath == \E read \in BOOLEAN : ScanResolve(read)

SpecPath == InitPath /\ [][NextPath]_vars

\* When reading the tags failed outright, the path gives all four.
FailedReadResolvesAll ==
    (req.pc = "resolved" /\ ~req.read) =>
        req.resolved = [artist |-> req.artist, album |-> req.album,
                        title |-> req.title, tracknumber |-> req.n]

\* C20: a file without tags at '<Artist> - <Album> (Year)/<N>. <Artist> -
\* <Title>.<ext>' resolves to that artist, album, track number and title,
\* whether reading its tags failed or gave empty fields.
C20_PathFallbackResolvesAll ==
    req.pc = "resolved" =>
        req.resolved = [artist |-> req.artist, album |-> req.album,
                        title |-> req.title, tracknumber |-> req.n]

-----------------------------------------------------------------------------
(* Queue requests one at a time: what a single request does to the rows *)

\* A play_album that flags the first item whatever start_track is
PlayAlbumResult_FirstPlays(trk, album, start_track, id) ==
    LET ts == SortedTracks(trk, {t \in DOMAIN trk : trk[t].album_id = album})
    IN  [i \in {id + k - 1 : k \in 1 .. Len(ts)} |->
            [track_id |-> ts[i - id + 1], position |-> i - id + 1,
             is_playing |-> i = id]]

\* queue.py:182, 194-206: play_album of a downloaded album: the new queue
\* table, item ids from id on
PlayAlbumResult(trk, album, start_track, id) ==
    LET ts == SortedTracks(trk, {t \in DOMAIN trk : trk[t].album_id = album})
    IN  [i \in {id + k - 1 : k \in 1 .. Len(ts)} |->
            [track_id |-> ts[i - id + 1], position |-> i - id + 1,
             is_playing |-> i - id = start_track - 1]]

\* POST /queue/play-album with the id of a downloaded album
PlayAlbum(album, start_track) ==
    LET new == PlayAlbumResult(tracks, album, start_track, seq.item)
    IN  /\ album \in DOMAIN albums
        /\ albums[album].is_downloaded
        /\ seq.item + Cardinality(DOMAIN new) <= MaxItemId + 1
        /\ queue' = new
        /\ seq' = [seq EXCEPT !.item = @ + Cardinality(DOMAIN new)]
        /\ Observe("play_album", FALSE, [album |-> album, start_track |-> start_track])
        /\ UNCHANGED <<fs, artists, albums, tracks, tasks, execs, invoked, req,
                       lock, history>>

\* A scanned library of one album with two tracks; the file scanned first
\* carries the higher track number
InitAlbumQueue ==
    LET F == [p \in Paths |->
                 [artist |-> "ABBA", album |-> "Gold",
                  title |-> IF p = "p1" THEN "Intro" ELSE "",
                  tracknumber |-> IF p = "p1" THEN 1 ELSE NoNum]]
        db == ScanDirectory(F, [artists |-> EmptyFn, albums |-> EmptyFn,
                                tracks |-> EmptyFn, seq |-> InitSeq],
                            <<"p1", "p2">>, NoId, NoId).db
    IN  /\ fs = F
        /\ artists = db.artists
        /\ albums = db.albums
        /\ tracks = db.tracks
        /\ seq = db.seq
        /\ queue = EmptyFn
        /\ tasks = EmptyFn
        /\ execs = EmptyFn
        /\ invoked = EmptyFn
        /\ req = EmptyFn
        /\ lock = 0
        /\ last = InitLast
        /\ history = <<>>

NextQueueOps ==
    \/ \E t \in DOMAIN tracks : AddToQueue(t, FALSE, FALSE)
    \/ \E item \in DOMAIN queue, new_position \in 1 .. MaxItemId :
          ReorderQueue(item, new_position)
    \/ \E album \in DOMAIN albums, start_track \in 1 .. 3 :
          PlayAlbum(album, start_track)

SpecQueueOps == InitAlbumQueue /\ [][NextQueueOps]_vars

C22_PlayNextInsertsAfterCurrent ==
    [][\A t \in DOMAIN tracks, play_now \in BOOLEAN :
          (AddToQueue(t, play_now, TRUE) /\ ~last'.raised) =>
              /\ seq.item \in DOMAIN queue' \ DOMAIN queue
              /\ IF PlayingItems(queue) = {}
                 THEN queue'[seq.item].position = 1
                 ELSE LET p == CurrentItem(queue).position
                      IN  /\ queue'[seq.item].position = p + 1
                          /\ \A i \in DOMAIN queue :
                                queue'[i].position =
                                    IF queue[i].position > p
                                    THEN queue[i].position + 1
                                    ELSE queue[i].position]_vars

\* a play_next add has gone between the playing item and a later one
C22_InsertedBelowLaterItem ==
    \E cur \in PlayingItems(queue) :
        /\ cur < seq.item - 1
        /\ seq.item - 1 \in DOMAIN queue
        /\ queue[seq.item - 1].position = queue[cur].position + 1
        /\ \E i, j \in DOMAIN queue :
              /\ i < seq.item - 1 /\ j < seq.item - 1
              /\ queue[i].position = queue[cur].position + 2
              /\ queue[j].position < queue[cur].position

\* C23: reorder(item, newPosition) with 1 <= newPosition <= N, on a queue
\* whose positions are 1..N, leaves them a permutation of 1..N, puts the
\* moved item at newPosition, keeps the other items in their relative
\* order, and keeps the position of every item outside the range between
\* the old and the new position.
C23_ReorderIsOneRenumbering ==
    [][\A item \in DOMAIN queue, new_position \in 1 .. Cardinality(DOMAIN queue) :
          (Contiguous(queue) /\ ReorderQueue(item, new_position)) =>
              LET old_position == queue[item].position
                  lo == IF old_position < new_position THEN old_position
                        ELSE new_position
                  hi == IF old_position < new_position THEN new_position
                        ELSE old_position
                  others == DOMAIN queue \ {item}
              IN  /\ DOMAIN queue' = DOMAIN queue
                  /\ Contiguous(queue')
                  /\ queue'[item].position = new_position
                  /\ \A i, j \in others :
                        queue[i].position < queue[j].position
                            <=> queue'[i].position < queue'[j].position
                  /\ \A i \in others :
                        (queue[i].position < lo \/ queue[i].position > hi) =>
                            queue'[i].position = queue[i].position]_vars

\* the last of three items was moved to the front, past the other two
C23_MovedToFront ==
    /\ DOMAIN queue = {1, 2, 3}
    /\ seq.item = 4
    /\ PlayingItems(queue) = {}
    /\ queue[1].position = 2 /\ queue[2].position = 3 /\ queue[3].position = 1

\* C24: playAlbum(tracks, startIndex) removes every previous queue item,
\* creates one item per track of the album at positions 1..N in the order
\* of the tracks, and makes the item at position startIndex the single
\* playing item.
C24_PlayAlbumReplacesQueue ==
    [][\A album \in DOMAIN albums, start_track \in 1 .. 3 :
          LET ts == SortedTracks(tracks,
                        {t \in DOMAIN tracks : tracks[t].album_id = album})
          IN  (PlayAlbum(album, start_track) /\ start_track <= Len(ts)) =>
                  /\ DOMAIN queue' \cap DOMAIN queue = {}
                  /\ Cardinality(DOMAIN queue') = Len(ts)
                  /\ \A k \in 1 .. Len(ts) : \E i \in DOMAIN queue' :
                        /\ queue'[i].position = k
                        /\ queue'[i].track_id = ts[k]
                        /\ queue'[i].is_playing <=> k = start_track]_vars

\* an album was played from its second track over a queue that held items
C24_ReplacedFromSecondTrack ==
    /\ last.op = "play_album"
    /\ last.stats.start_track = 2
    /\ Cardinality(DOMAIN queue) = 2
    /\ \A i \in DOMAIN queue : i >= 3 /\ (queue[i].is_playing <=> queue[i].position = 2)
    /\ \E i, j \in DOMAIN queue :
          /\ queue[i].position < queue[j].position
          /\ tracks[queue[i].track_id].track_number
                 < tracks[queue[j].track_id].track_number
          /\ queue[i].track_id > queue[j].track_id

\* C25: next() with an item playing at position p clears that item's flag,
\* appends exactly one PlayHistory record for its track, increases that
\* track's play count by one, and sets is-playing on the item with the
\* smallest position greater than p; if there is none it reports the end
\* of the queue without error.  No position changes.
C25_NextAdvancesAndLogs ==
    [][(PlayNext /\ Cardinality(PlayingItems(queue)) = 1) =>
          LET cur == CHOOSE i \in PlayingItems(queue) : TRUE
              p == queue[cur].position
              later == {i \in DOMAIN queue : queue[i].position > p}
          IN  /\ ~last'.raised
              /\ history' = history \o <<[track_id |-> queue[cur].track_id]>>
              /\ \A t \in DOMAIN tracks :
                    tracks'[t].play_count =
                        tracks[t].play_count + (IF t = queue[cur].track_id THEN 1 ELSE 0)
              /\ DOMAIN queue' = DOMAIN queue
              /\ \A i \in DOMAIN queue : queue'[i].position = queue[i].position
              /\ cur \notin PlayingItems(queue')
              /\ IF later = {} THEN PlayingItems(queue') = {}
                 ELSE \E n \in later :
                        /\ PlayingItems(queue') = {n}
                        /\ \A i \in later : queue[n].position <= queue[i].position]_vars

\* next() has moved on from an item in the middle of the queue
C25_AdvancedFromTheMiddle ==
    /\ last.op = "next" /\ ~last.raised
    /\ last.stats.origin # 0
    /\ Len(history) = 1
    /\ \E n \in PlayingItems(queue) : queue[n].position > last.stats.origin
    /\ \E t \in DOMAIN tracks : tracks[t].play_count = 1

-----------------------------------------------------------------------------
(* add_track on its own: calls with and without an external track id, over *)
(* one artist with two albums                                              *)

InitAddTrack ==
    LET a == GetOrCreateArtist([artists |-> EmptyFn, albums |-> EmptyFn,
                                tracks |-> EmptyFn, seq |-> InitSeq], "ABBA")
        db == GetOrCreateAlbum(GetOrCreateAlbum(a.db, "Gold", a.id, NoId, NoId).db,
                               "misc", a.id, NoId, NoId).db
    IN  /\ fs = [p \in Paths |-> NoFile]
        /\ artists = db.artists
        /\ albums = db.albums
        /\ tracks = db.tracks
        /\ seq = db.seq
        /\ queue = EmptyFn
        /\ tasks = EmptyFn
        /\ execs = EmptyFn
        /\ invoked = EmptyFn
        /\ req = EmptyFn
        /\ lock = 0
        /\ last = InitLast
        /\ history = <<>>

\* add_track(title, artist, album, file_path, qobuz_id, track_number=1) for
\* the artist of the two albums
AddTrackCall(title, album, file_path, qobuz_id) ==
    LET r == AddTrack(Catalog, title, albums[album].artist_id, album, file_path,
                      qobuz_id, 1)
    IN  /\ r.db.seq.track <= MaxRowId + 1
        /\ SetCatalog(r.db)
        /\ Observe("add_track", r.raised, ZeroStats)
        /\ UNCHANGED <<fs, queue, tasks, execs, invoked, req, lock, history>>

NextAddTrack ==
    \E title \in {"Intro", "Outro"}, album \in DOMAIN albums,
       file_path \in Paths, qobuz_id \in {NoId, "t1", "t2"} :
        AddTrackCall(title, album, file_path, qobuz_id)

SpecAddTrack == InitAddTrack /\ [][NextAddTrack]_vars

\* C26: addTrack applies the first rule that matches, in the order: a track
\* with the given external id; a track with the exact file path; a track of
\* the same album with the same track number and title; otherwise it
\* inserts.  A new row is created only when none of the three matches.
C26_FirstMatchingRuleWins ==
    [][\A title \in {"Intro", "Outro"}, album \in DOMAIN albums,
          file_path \in Paths, qobuz_id \in {NoId, "t1", "t2"} :
          AddTrackCall(title, album, file_path, qobuz_id) =>
              LET byId == {t \in DOMAIN tracks :
                              qobuz_id # NoId /\ tracks[t].qobuz_id = qobuz_id}
                  byPath == {t \in DOMAIN tracks : tracks[t].file_path = file_path}
                  byTriple == {t \in DOMAIN tracks :
                                  /\ tracks[t].album_id = album
                                  /\ tracks[t].track_number = 1
                                  /\ tracks[t].title = title}
                  created == DOMAIN tracks' \ DOMAIN tracks
                  changed == {t \in DOMAIN tracks : tracks'[t] # tracks[t]}
                  none == byId = {} /\ byPath = {} /\ byTriple = {}
              IN  /\ created # {} => none
                  /\ none => Cardinality(created) = 1 /\ changed = {}
                  /\ byId # {} => changed \subseteq byId
                  /\ (byId = {} /\ byPath # {}) => changed \subseteq byPath
                  /\ (byId = {} /\ byPath = {} /\ byTriple # {}) =>
                        changed \subseteq byTriple]_vars

\* a call found its track by external id although another track held the
\* file path: the two tracks now share the path
C26_ExternalIdBeforePath ==
    /\ last.op = "add_track" /\ ~last.raised
    /\ \E t, u \in DOMAIN tracks :
          /\ t # u
          /\ tracks[t].qobuz_id # NoId
          /\ tracks[u].qobuz_id = NoId
          /\ tracks[t].file_path = tracks[u].file_path
          /\ tracks[t].title # tracks[u].title

-----------------------------------------------------------------------------
(* Downloads into a storage root in which a file may carry a title the     *)
(* tracks table cannot hold.  The event loop runs every coroutine it was   *)
(* given, and the executor call returns.                                   *)

NextDownloadFair ==
    \/ WriteFile("p2", LongTags)
    \/ \E u \in Urls : StartDownload(u, "none")
    \/ \E id \in DOMAIN execs : ExecMarkDownloading(id)
    \/ \E id \in DOMAIN execs, success \in BOOLEAN : ExecDownload(id, success)
    \/ \E id \in DOMAIN execs : ExecFinish(id)

\* Every coroutine is run to its end: weak fairness of its first two steps,
\* and of its last step, whose fairness is written out by its definition
\* with the step's guard (the executor call has returned) for ENABLED.
SpecDownloadFair ==
    /\ Init
    /\ [][NextDownloadFair]_vars
    /\ \A id \in 1 .. MaxTaskId :
          /\ WF_vars(\/ ExecMarkDownloading(id)
                     \/ \E success \in BOOLEAN : ExecDownload(id, success))
          /\ \/ []<>(~(id \in DOMAIN execs /\ execs[id].pc = "ran"))
             \/ []<><<ExecFinish(id)>>_vars

\* C27: every task its coroutine has set to downloading eventually is
\* completed or failed, also when a file fails during the scan that
\* follows the download; no task stays downloading for ever.
C27_DownloadingTaskSettles ==
    \A id \in 1 .. MaxTaskId :
        (id \in DOMAIN tasks /\ tasks[id].status = "downloading")
            ~> (id \in DOMAIN tasks /\ tasks[id].status \in {"completed", "failed"})

-----------------------------------------------------------------------------
(* The scan of a completed download over a root of several albums, under   *)
(* SpecDownload *)

\* album row a of the table A is the album the file at p names by its own
\* title and artist
FilesOwnAlbum(A, R, a, p) ==
    /\ A[a].title = AlbumTitleOf(fs, p)
    /\ Lower(R[A[a].artist_id].name) = Lower(ArtistNameOf(fs, p))

\* C28: the scan that follows a completed download of external album id X
\* keeps the albums of the root distinct: X is put only onto an album that
\* a file names by its own title and artist, the track of a file is under
\* the album carrying X only if the file names that album, and a track
\* that was under the album its file names keeps its album.
C28_ScanKeepsAlbumsDistinct ==
    [][\A id \in DOMAIN execs :
          (execs[id].pc = "ran" /\ execs[id].success /\ id \notin DOMAIN execs') =>
              LET X == AlbumIdOf(tasks[id].qobuz_url)
              IN  /\ \A a \in DOMAIN albums' :
                        (/\ albums'[a].qobuz_id = X
                         /\ (a \in DOMAIN albums => albums[a].qobuz_id # X)) =>
                            \E p \in Present(fs) :
                                FilesOwnAlbum(albums', artists', a, p)
                  /\ \A t \in DOMAIN tracks' :
                        (/\ tracks'[t].file_path \in Present(fs)
                         /\ albums'[tracks'[t].album_id].qobuz_id = X) =>
                            FilesOwnAlbum(albums', artists', tracks'[t].album_id,
                                          tracks'[t].file_path)
                  /\ \A t \in DOMAIN tracks :
                        (/\ tracks[t].file_path \in Present(fs)
                         /\ FilesOwnAlbum(albums, artists, tracks[t].album_id,
                                          tracks[t].file_path)) =>
                            tracks'[t].album_id = tracks[t].album_id]_vars

-----------------------------------------------------------------------------
(* References between the tables *)

\* C29: in every state every queue row references a track of the catalog:
\* a verification never deletes a track that a queue row references and
\* leaves the row.
C29_QueueItemsReferenceTracks ==
    \A i \in DOMAIN queue : queue[i].track_id \in DOMAIN tracks

\* a verification found every track of an album gone while a queue row
\* referenced one of them; the track and the row are both there
C29_VerifyMetQueuedTrack ==
    /\ last.op = "verify"
    /\ last.raised
    /\ \E i \in DOMAIN queue :
          LET t == queue[i].track_id
          IN  /\ t \in DOMAIN tracks
              /\ tracks[t].file_path # NoPath
              /\ fs[tracks[t].file_path] = NoFile
              /\ \A u \in DOMAIN tracks :
                    tracks[u].album_id = tracks[t].album_id =>
                        (tracks[u].file_path = NoPath
                            \/ fs[tracks[u].file_path] = NoFile)

\* C30: after a verification every track and every album references an
\* artist of the catalog: an artist without an album that is still the
\* artist of a remaining track is not deleted.
C30_RowsReferenceArtists ==
    last.op = "verify" =>
        /\ \A t \in DOMAIN tracks : tracks[t].artist_id \in DOMAIN artists
        /\ \A a \in DOMAIN albums : albums[a].artist_id \in DOMAIN artists

\* a verification found every album of an artist emptied while a track
\* under another album still had that artist; the artist is still there
C30_VerifyMetArtistOfTrack ==
    /\ last.op = "verify"
    /\ last.raised
    /\ queue = EmptyFn
    /\ LET missing == MissingTracks(Catalog, fs)
           cleared == ClearMissing(tracks, missing)
           dead_albums == DeadAlbums(Catalog, cleared, missing)
           dead_tracks == DeadTracks(cleared, dead_albums)
       IN  \E t \in DOMAIN tracks \ dead_tracks :
               /\ tracks[t].artist_id \in OrphanArtists(Catalog, dead_albums)
               /\ tracks[t].artist_id \in DOMAIN artists

====
